---------------------------- MODULE Spec2Model ----------------------------
(***************************************************************************)
(* A model of templimiter: the supervisor loop of daemon/monitor.cc, the   *)
(* process records of daemon/pid.cc, the accepted configurations of        *)
(* daemon/config.cc and the string helpers of tools/string.cc.             *)
(*                                                                         *)
(* Strings are sequences of one-character strings; positions are 0-based   *)
(* as in the C++ source, and npos is -1.                                   *)
(***************************************************************************)
EXTENDS Integers, Sequences, FiniteSets, TLC

(***************************************************************************)
(* Bounds of the model.                                                    *)
(***************************************************************************)
\* PIDs of the process table are 1..MaxPid; the daemon is PID 1.
MaxPid == 3
\* The aggregate CPU time of /proc/stat stops advancing at MaxTime ticks.
MaxTime == 1
\* Sensor readings are 0..MaxTemp.
MaxTemp == 3
\* Number of CPUs (files matched by matcher_scaling_max_freq).
NCpu == 2
\* The values another writer may leave in a scaling_max_freq file are
\* 1..MaxFreq.
MaxFreq == 5
\* u_long is modelled ULongBits wide (64 in the build).
ULongBits == 12

(***************************************************************************)
(* tools/string.cc and tools/vector.h                                      *)
(***************************************************************************)
npos == -1

Range(s) == {s[i] : i \in 1..Len(s)}

\* std::string::substr(pos, n), pos 0-based, clipped at the end of s.
Substr(s, pos, n) ==
  [i \in 1..(IF pos + n > Len(s) THEN Len(s) - pos ELSE n) |-> s[pos + i]]

\* std::string::find(what, from): the first position >= from at which `what`
\* occurs in s, or npos.
Find(s, what, from) ==
  LET hits == {k \in from..(Len(s) - Len(what)) : Substr(s, k, Len(what)) = what}
  IN  IF hits = {} THEN npos ELSE CHOOSE k \in hits : \A j \in hits : k <= j

\* tools::contains
contains(target, value) == \E i \in 1..Len(target) : target[i] = value

\* tools::subvect, for arguments inside the vector (no ArgumentError).
subvect(vect, start_index, n_elements) ==
  [i \in 1..n_elements |-> vect[start_index + i]]

\* tools::split: the loop of split, from 1-based position i on.
RECURSIVE SplitLoop(_, _, _, _, _, _)
SplitLoop(str, ch, i, cur, waiting_next, chunks) ==
  IF i > Len(str)
    THEN (IF Len(cur) > 0 THEN Append(chunks, cur) ELSE chunks)
  ELSE IF str[i] = "\\" /\ Len(str) > i
    THEN SplitLoop(str, ch, i + 2, Append(cur, str[i + 1]), waiting_next, chunks)
  ELSE IF str[i] = ch
    THEN (IF ~waiting_next /\ Len(cur) > 0
            THEN SplitLoop(str, ch, i + 1, <<>>, TRUE, Append(chunks, cur))
            ELSE SplitLoop(str, ch, i + 1, cur, waiting_next, chunks))
  ELSE SplitLoop(str, ch, i + 1, Append(cur, str[i]), FALSE, chunks)

split(str, ch) == SplitLoop(str, ch, 1, <<>>, FALSE, <<>>)

\* Sum of the sizes of the first n fragments (std::accumulate over the slice).
RECURSIVE SumSizes(_, _)
SumSizes(vect, n) == IF n = 0 THEN 0 ELSE SumSizes(vect, n - 1) + Len(vect[n])

\* The anchor test of the last fragment: its first occurrence in test must be
\* at the end of test.
matches_pattern_last_anchor(test, last) ==
  Find(test, last, 0) = Len(test) - Len(last)

\* tools::matches_pattern, lines 81-103: the tests on the fragments patt_spl.
matches_fragments(pattern, test, patt_spl) ==
  /\ ~(/\ pattern[1] # "*"
       /\ Substr(test, 0, Len(patt_spl[1])) # patt_spl[1])
  /\ \A i \in 1..Len(patt_spl) :
        Find(test, patt_spl[i], SumSizes(subvect(patt_spl, 0, i - 1), i - 1)) # npos
  /\ ~(/\ pattern[Len(pattern)] # "*"
       /\ ~matches_pattern_last_anchor(test, patt_spl[Len(patt_spl)]))

\* tools::matches_pattern
matches_pattern(pattern, test) ==
  IF Find(pattern, <<"*">>, 0) = npos
    THEN pattern = test
    ELSE matches_fragments(pattern, test, split(pattern, "*"))

\* tools::pattern_vect_contains
pattern_vect_contains(pattern_vect, value) ==
  \E i \in 1..Len(pattern_vect) : matches_pattern(pattern_vect[i], value)

(***************************************************************************)
(* Machine arithmetic                                                      *)
(***************************************************************************)
\* Number of values of a u_long.
ULongMod == 2 ^ ULongBits
\* std::numeric_limits<u_long>().max()
ULONG_MAX == ULongMod - 1

\* Unsigned subtraction a - b of two u_long values.
USub(a, b) == (a - b) % ULongMod

RECURSIVE Gcd(_, _)
Gcd(a, b) == IF b = 0 THEN a ELSE Gcd(b, a % b)

\* A float is the quotient num/den in lowest terms; den = 0 stands for the
\* IEEE specials: 0/0 is NaN and x/0 (x > 0) is +infinity.
NaN == [num |-> 0, den |-> 0]
Infinity == [num |-> 1, den |-> 0]
FloatOf(n) == [num |-> n, den |-> 1]

\* float / float of two non-negative floats holding integers n and d.
FloatDiv(n, d) ==
  IF d = 0 THEN (IF n = 0 THEN NaN ELSE Infinity)
  ELSE [num |-> n \div Gcd(n, d), den |-> d \div Gcd(n, d)]

IsNaN(f) == f.num = 0 /\ f.den = 0

\* a < b and a > b on floats: false whenever an operand is NaN.
FloatLess(a, b) == ~IsNaN(a) /\ ~IsNaN(b) /\ a.num * b.den < b.num * a.den
FloatGreater(a, b) == FloatLess(b, a)

(***************************************************************************)
(* State                                                                   *)
(***************************************************************************)
VARIABLES
  cfg,                \* the Config object, or the error its constructor threw
  proc,               \* the kernel's process table: what /proc/<pid>/stat shows
  proc_stat,          \* /proc/stat, first line: <<user, nice, system, idle>>
  scaling_max_freq,   \* the per-CPU scaling_max_freq files
  heap,               \* the Pid objects, by address
  pids_,              \* Monitor::pids_: addresses of Pid objects
  self_stopped_pids_, \* Monitor::self_stopped_pids_: addresses of Pid objects
  pc,                 \* "run", or the name of the error that ended the daemon
  trace,              \* what the last tick of run_ did, in order
  refreshed,          \* the census as the last tick's update_pids_ left it
  unreadable          \* the kinds of sysfs files that cannot be read now

vars == <<cfg, proc, proc_stat, scaling_max_freq, heap, pids_,
          self_stopped_pids_, pc, trace, refreshed, unreadable>>

Pids == 1..MaxPid
Temps == 0..MaxTemp
Cpus == 1..NCpu

\* One character sequence per string literal of the model.
Str_star == <<"*">>
Str_Xorg == <<"X", "o", "r", "g">>
Str_sd_pam == <<"(", "s", "d", "-", "p", "a", "m", ")">>

(***************************************************************************)
(* daemon/config.h, daemon/config.cc                                       *)
(***************************************************************************)
\* Config::own_pid_, the first field of /proc/self/stat.
own_pid == 1

\* The frequencies the hardware offers, as scaling_available_frequencies
\* lists them for every CPU.
Ladder == <<1, 2, 3>>
\* The ladder of every second CPU differs, and is listed highest first.
Ladder2 == <<4, 2>>
LadderOf(i) == IF i % 2 = 1 THEN Ladder ELSE Ladder2
SeqMax(s) == CHOOSE x \in Range(s) : \A y \in Range(s) : y <= x
SeqMin(s) == CHOOSE x \in Range(s) : \A y \in Range(s) : x <= y

\* The member initialisers of Config (config.h), thresholds left out: the
\* model draws the four temperatures of every configuration.
DefaultWhitelist ==
  [whitelist_pid |-> <<>>, whitelist_comm |-> <<Str_Xorg, Str_sd_pam>>,
   whitelist_state |-> <<>>, whitelist_ppid |-> <<>>, whitelist_pgrp |-> <<>>,
   whitelist_session |-> <<>>, whitelist_tty_nr |-> <<>>,
   whitelist_tpgid |-> <<>>, whitelist_flags |-> <<>>,
   whitelist_max_nice |-> -21]

DefaultSwitches ==
  [use_throttle |-> TRUE, use_SIGSTOP |-> FALSE, use_scaling_available |-> FALSE,
   use_stepwise_SIGSTOP |-> TRUE, use_stepwise_SIGCONT |-> FALSE]

\* Config::assert_any_mode_
assert_any_mode_(c) == c.use_throttle \/ c.use_SIGSTOP
\* Config::assert_throttle_gte_dethrottle_
assert_throttle_gte_dethrottle_(c) == ~(c.temp_throttle < c.temp_dethrottle)
\* Config::assert_SIGSTOP_gte_SIGCONT_
assert_SIGSTOP_gte_SIGCONT_(c) == ~(c.temp_SIGSTOP < c.temp_SIGCONT)

\* What the globs of the matchers resolve to at load: the number of files of
\* each FileCollection, one per CPU on a machine that has them all.
DefaultSysfs ==
  [ls_scaling_available_frequencies |-> NCpu, ls_cpuinfo_max_freq |-> NCpu,
   ls_cpuinfo_min_freq |-> NCpu]

\* Config::load_from_tag_ for a vector: `lines` holds, for every line of the
\* config file that carries the tag, the values that follow the tag (given by
\* what tools::convert makes of them).
load_from_tag_(lines, defval) ==
  IF Len(lines) = 0 THEN [error |-> "none", value |-> defval]
  ELSE IF Len(lines) > 1 THEN [error |-> "ConfigError", value |-> defval]
  ELSE IF Len(subvect(<<0>> \o lines[1], 1, Len(lines[1]))) < 1
    THEN [error |-> "none", value |-> defval]
  ELSE [error |-> "none", value |-> lines[1]]

\* The own-PID push_back of load_config_values_, without it.
whitelist_own_pid_skipped(whitelist_pid) == whitelist_pid

\* load_config_values_: whitelist_pid_.push_back(own_pid_)
whitelist_own_pid(whitelist_pid) == Append(whitelist_pid, own_pid)

\* Config::load_config_values_, from the lines of the config file: the
\* daemon's PID is added to whitelist_pid and every whitelist_comm entry is
\* wrapped in parentheses.  raw.whitelist_pid holds the whitelist_pid lines of
\* the file, the other fields the values of their lines.
load_config_values_(raw) ==
  [error |-> load_from_tag_(raw.whitelist_pid, <<>>).error] @@
  [raw EXCEPT
     !.whitelist_pid = whitelist_own_pid(load_from_tag_(raw.whitelist_pid, <<>>).value),
     !.whitelist_comm =
        [i \in 1..Len(raw.whitelist_comm) |-> <<"(">> \o raw.whitelist_comm[i] \o <<")">>]]

\* FileCollection(pattern): ArgumentError when ls(pattern) finds no file.
FileCollection_throws(n_files) == ~(n_files > 0)

\* The frequency members set_and_assert_config_ leaves empty.
NoFreqs ==
  [cpuinfo_max_freqs |-> <<>>, cpuinfo_min_freqs |-> <<>>,
   scaling_available_frequencies |-> <<>>]

\* Config::assert_scaling_max_size_eq_cpu_max_and_min_
assert_scaling_max_size_eq_cpu_max_and_min_(c, scalemax_sz) ==
  /\ Len(c.cpuinfo_max_freqs) # 0
  /\ Len(c.cpuinfo_min_freqs) # 0
  /\ scalemax_sz = Len(c.cpuinfo_max_freqs)
  /\ scalemax_sz = Len(c.cpuinfo_min_freqs)

\* The cpuinfo branch of set_and_assert_config_ without its
\* assert_scaling_max_size_eq_cpu_max_and_min_.
load_cpuinfo_uncounted(c) ==
  IF FileCollection_throws(c.ls_cpuinfo_max_freq)
       \/ FileCollection_throws(c.ls_cpuinfo_min_freq)
    THEN [c EXCEPT !.error = "ArgumentError"]
  ELSE [c EXCEPT
          !.cpuinfo_max_freqs =
             [i \in 1..c.ls_cpuinfo_max_freq |-> SeqMax(LadderOf(i))],
          !.cpuinfo_min_freqs =
             [i \in 1..c.ls_cpuinfo_min_freq |-> SeqMin(LadderOf(i))]]

\* set_and_assert_config_, the branch without the ladder: cpuinfo_max_freq and
\* cpuinfo_min_freq are loaded and counted against scaling_max_freq.
load_cpuinfo_(c) ==
  IF FileCollection_throws(c.ls_cpuinfo_max_freq)
       \/ FileCollection_throws(c.ls_cpuinfo_min_freq)
    THEN [c EXCEPT !.error = "ArgumentError"]
  ELSE LET l == [c EXCEPT
                   !.cpuinfo_max_freqs =
                      [i \in 1..c.ls_cpuinfo_max_freq |-> SeqMax(LadderOf(i))],
                   !.cpuinfo_min_freqs =
                      [i \in 1..c.ls_cpuinfo_min_freq |-> SeqMin(LadderOf(i))]]
       IN  IF assert_scaling_max_size_eq_cpu_max_and_min_(l, NCpu)
             THEN l ELSE [l EXCEPT !.error = "ConfigError"]

\* set_and_assert_config_, the branch with the ladder: one line of
\* scaling_available_frequencies per CPU, counted against scaling_max_freq.
load_scaling_available_(c) ==
  LET l == [c EXCEPT
              !.scaling_available_frequencies =
                 [i \in 1..c.ls_scaling_available_frequencies |-> LadderOf(i)]]
  IN  IF Len(l.scaling_available_frequencies) # 0
           /\ NCpu = Len(l.scaling_available_frequencies)
        THEN l ELSE [l EXCEPT !.error = "ConfigError"]

\* The catch of set_and_assert_config_ for the ladder's FileCollection, as a
\* rethrow of the ArgumentError.
test_scaling_files_rethrown(c) ==
  IF c.use_scaling_available /\ FileCollection_throws(c.ls_scaling_available_frequencies)
    THEN [c EXCEPT !.error = "ArgumentError"]
  ELSE c

\* set_and_assert_config_: the test for the ladder's files.  An ArgumentError
\* of the FileCollection is caught: a warning goes to stderr and
\* use_scaling_available is switched off.
test_scaling_files(c) ==
  IF c.use_scaling_available /\ FileCollection_throws(c.ls_scaling_available_frequencies)
    THEN [c EXCEPT !.warnings = Append(@, "Scaling available frequencies file not found"),
                   !.use_scaling_available = FALSE]
  ELSE c

\* set_and_assert_config_, the use_throttle branch after its assertion.
load_throttle_files_(c) ==
  IF c.error # "none" THEN c
  ELSE IF c.use_scaling_available THEN load_scaling_available_(c)
  ELSE load_cpuinfo_(c)

\* The thresholds of a control that is switched off, left as loaded.
disable_thresholds_kept(c) == c

\* set_and_assert_config_, the else branches: the thresholds of a control
\* that is switched off are set to the ends of u_long.
disable_thresholds(c) ==
  LET t == IF c.use_throttle THEN c
           ELSE [c EXCEPT !.temp_throttle = ULONG_MAX, !.temp_dethrottle = 0]
  IN  IF c.use_SIGSTOP THEN t
      ELSE [t EXCEPT !.temp_SIGSTOP = ULONG_MAX, !.temp_SIGCONT = 0]

\* Config::set_and_assert_config_: the Config object, with error = "none", or
\* the error thrown.
set_and_assert_config_(c) ==
  LET failed == [c EXCEPT !.error = "ConfigError"]
  IN  IF ~assert_any_mode_(c) THEN failed
      ELSE IF c.use_throttle /\ ~assert_throttle_gte_dethrottle_(c) THEN failed
      ELSE IF c.use_SIGSTOP /\ ~assert_SIGSTOP_gte_SIGCONT_(c)
        THEN [(IF c.use_throttle THEN load_throttle_files_(test_scaling_files(c)) ELSE c)
                EXCEPT !.error = IF @ = "none" THEN "ConfigError" ELSE @]
      ELSE disable_thresholds(
             IF c.use_throttle THEN load_throttle_files_(test_scaling_files(c)) ELSE c)

\* Config::Config: load_config_lines_, load_config_values_, then
\* set_and_assert_config_ unless the former threw.  config_lines_ keeps the
\* file as it was read; the model keeps the lines that the load overwrites.
Config(raw) ==
  LET c == load_config_values_(raw) @@ NoFreqs @@
             [warnings |-> <<>>,
              config_lines_ |->
                [use_throttle |-> raw.use_throttle,
                 use_scaling_available |-> raw.use_scaling_available,
                 whitelist_pid |-> raw.whitelist_pid]]
  IN  IF c.error # "none" THEN c ELSE set_and_assert_config_(c)

(***************************************************************************)
(* The process table                                                       *)
(***************************************************************************)
\* The command names processes give themselves in SpecGlob: up to
\* MaxName characters, letters and closing parentheses, and a name of two
\* words.
MaxName == 1
CommNames ==
  UNION {[1..k -> {"a", ")"}] : k \in 0..MaxName} \cup {<<"a", " ", "b">>}

\* The fields of /proc/<p>/stat that do not change while p lives.
ProcAttr(p) ==
  [comm |-> IF "comm" \in DOMAIN proc[p] THEN proc[p].comm
            ELSE IF p = own_pid THEN <<"(", "t", ")">>
            ELSE IF p = 2 THEN <<"(", "a", ")">>
            ELSE IF p = 3 THEN <<"(", ")", ")">>
            ELSE <<"(", "b", ")">>,
   ppid |-> p - 1, pgrp |-> p, session |-> p, tty_nr |-> p, tpgid |-> p,
   flags |-> p, nice |-> IF p = 2 THEN -5 ELSE 0]

\* tools::split(stat_lines[0], ' ') on the one line of /proc/<p>/stat, field
\* 0 first.  The kernel prints the PID, the command name in parentheses as
\* the process set it, the state letter and numbers, with one space between
\* them; split cuts the command name too where it holds a space.
stat_data(p) ==
  <<p>> \o split(ProcAttr(p).comm, " ") \o
  <<proc[p].state, ProcAttr(p).ppid, ProcAttr(p).pgrp,
    ProcAttr(p).session, ProcAttr(p).tty_nr, ProcAttr(p).tpgid,
    ProcAttr(p).flags, 0, 0, 0, 0, proc[p].utime, 0, 0, 0, 20 + ProcAttr(p).nice,
    ProcAttr(p).nice>>

\* Pid::read_stat_, lines 60-72, on a readable stat file: a tools::convert
\* throws TypeError.  Of the fields, the n after the PID are pieces of the
\* command name and the next is the state letter.  convert<char> throws on
\* a piece longer than one character; the conversions to numbers throw on
\* the state letter and on a piece that is not all digits.
read_stat_throws(p) ==
  LET n == Len(split(ProcAttr(p).comm, " "))
      IsNumber(piece) ==
        piece # <<>> /\ \A j \in 1..Len(piece) :
          piece[j] \in {"0", "1", "2", "3", "4", "5", "6", "7", "8", "9"}
  IN  \/ n > 1 /\ Len(stat_data(p)[3]) # 1
      \/ \E i \in {4, 5, 6, 7, 8, 9, 14, 15, 16, 17, 19} :
           \/ i = n + 2
           \/ i <= n + 1 /\ ~IsNumber(stat_data(p)[i])

\* io::ls("/proc/*") filtered to the all-digit names, as pid_t values, in
\* the order of the listing.
RECURSIVE ls_pids(_)
ls_pids(p) ==
  IF p > MaxPid THEN <<>>
  ELSE (IF proc[p].alive THEN <<p>> ELSE <<>>) \o ls_pids(p + 1)

(***************************************************************************)
(* daemon/pid.h, daemon/pid.cc                                             *)
(***************************************************************************)
\* A Pid object as its member initialisers leave it. The members without an
\* initialiser hold no value yet; none is read before it is assigned as long
\* as the first read of the stat file succeeds.
PidMembers(pid) ==
  [pid_ |-> pid, is_a_process_ |-> FALSE, is_whitelisted_ |-> FALSE,
   has_received_first_update_ |-> FALSE, is_ready_ |-> FALSE,
   is_self_stopped_ |-> FALSE, comm_ |-> <<>>, state_ |-> "?", ppid_ |-> 0,
   pgrp_ |-> 0, session_ |-> 0, tty_nr_ |-> 0, tpgid_ |-> 0, flags_ |-> 0,
   utime_ |-> 0, stime_ |-> 0, cutime_ |-> 0, cstime_ |-> 0, nice_ |-> 0,
   pid_time_prev_ |-> 0, cpu_time_prev_ |-> 0, pid_cpu_pct_ |-> NaN]

\* A read_stat_ that leaves is_a_process_ alone when the stat file is gone.
read_stat_ignores_IOError(rec) ==
  IF ~proc[rec.pid_].alive THEN rec
  ELSE LET d == stat_data(rec.pid_)
       IN  [rec EXCEPT !.comm_ = d[2], !.state_ = d[3], !.ppid_ = d[4],
                       !.pgrp_ = d[5], !.session_ = d[6], !.tty_nr_ = d[7],
                       !.tpgid_ = d[8], !.flags_ = d[9], !.utime_ = d[14],
                       !.stime_ = d[15], !.cutime_ = d[16], !.cstime_ = d[17],
                       !.nice_ = d[19], !.is_a_process_ = TRUE]

\* Pid::read_stat_: an unreadable stat file (IOError) clears is_a_process_ and
\* leaves the other members as they were.
read_stat_(rec) ==
  IF ~proc[rec.pid_].alive THEN [rec EXCEPT !.is_a_process_ = FALSE]
  ELSE LET d == stat_data(rec.pid_)
       IN  [rec EXCEPT !.comm_ = d[2], !.state_ = d[3], !.ppid_ = d[4],
                       !.pgrp_ = d[5], !.session_ = d[6], !.tty_nr_ = d[7],
                       !.tpgid_ = d[8], !.flags_ = d[9], !.utime_ = d[14],
                       !.stime_ = d[15], !.cutime_ = d[16], !.cstime_ = d[17],
                       !.nice_ = d[19], !.is_a_process_ = TRUE]

\* Pid::check_whitelist_
check_whitelist_(rec) ==
  [rec EXCEPT !.is_whitelisted_ =
     \/ rec.nice_ < cfg.whitelist_max_nice
     \/ contains(cfg.whitelist_pid, rec.pid_)
     \/ contains(cfg.whitelist_state, rec.state_)
     \/ contains(cfg.whitelist_ppid, rec.ppid_)
     \/ contains(cfg.whitelist_pgrp, rec.pgrp_)
     \/ contains(cfg.whitelist_session, rec.session_)
     \/ contains(cfg.whitelist_tty_nr, rec.tty_nr_)
     \/ contains(cfg.whitelist_tpgid, rec.tpgid_)
     \/ contains(cfg.whitelist_flags, rec.flags_)
     \/ pattern_vect_contains(cfg.whitelist_comm, rec.comm_)]

\* Pid::Pid
Pid(pid) == check_whitelist_(read_stat_(PidMembers(pid)))

\* The sum utime_ + stime_ + cutime_ + cstime_ of u_long values.
pid_time(rec) == (rec.utime_ + rec.stime_ + rec.cutime_ + rec.cstime_) % ULongMod

\* Pid::update, after read_stat_ and check_whitelist_.
update_times(rec, cpu_time) ==
  IF ~rec.is_whitelisted_
    THEN IF ~rec.has_received_first_update_
           THEN [rec EXCEPT !.pid_time_prev_ = pid_time(rec),
                            !.cpu_time_prev_ = cpu_time,
                            !.has_received_first_update_ = TRUE]
           ELSE [rec EXCEPT
                   !.pid_cpu_pct_ = FloatDiv(USub(pid_time(rec), rec.pid_time_prev_),
                                             USub(cpu_time, rec.cpu_time_prev_)),
                   !.pid_time_prev_ = pid_time(rec),
                   !.cpu_time_prev_ = cpu_time,
                   !.is_ready_ = TRUE]
    ELSE [rec EXCEPT !.pid_time_prev_ = 0, !.cpu_time_prev_ = 0,
                     !.pid_cpu_pct_ = FloatOf(0),
                     !.has_received_first_update_ = FALSE]

\* Pid::update
update(rec, cpu_time) == update_times(check_whitelist_(read_stat_(rec)), cpu_time)

\* Pid::send_SIGSTOP and Pid::send_SIGCONT, on the object.
send_SIGSTOP(rec) == [rec EXCEPT !.is_self_stopped_ = TRUE]
\* A send_SIGCONT that leaves the mark of the object as it is.
send_SIGCONT_marked(rec) == rec
send_SIGCONT(rec) == [rec EXCEPT !.is_self_stopped_ = FALSE]

\* kill(pid, sig) on the process table: signal 19 stops a living process,
\* signal 18 lets it run again; a PID that is gone is left alone.
kill(table, pid, sig) ==
  IF ~table[pid].alive THEN table
  ELSE [table EXCEPT ![pid].state = IF sig = 19 THEN "T" ELSE "R"]

(***************************************************************************)
(* daemon/monitor.cc                                                       *)
(*                                                                         *)
(* The functions of Monitor are operators on a record w of everything one  *)
(* tick can change: heap, pids_, self_stopped_pids_, proc (through kill),  *)
(* scaling_max_freq (through overwrite), trace and refreshed, and of what  *)
(* it has thrown.                                                          *)
(***************************************************************************)
Ev(op, x, y) == [op |-> op, x |-> x, y |-> y]
Log(w, op, x, y) == [w EXCEPT !.trace = Append(@, Ev(op, x, y))]

\* Config::assert_throttle_mode_ and Config::assert_SIGSTOP_mode_, as the
\* getters of Config call them: InternalError when the mode is off.
assert_throttle_mode_(w) ==
  IF cfg.use_throttle THEN w
  ELSE [Log(w, "assert_throttle_mode", 0, 0) EXCEPT !.thrown = "InternalError"]
assert_SIGSTOP_mode_(w) ==
  IF cfg.use_SIGSTOP THEN w
  ELSE [Log(w, "assert_SIGSTOP_mode", 0, 0) EXCEPT !.thrown = "InternalError"]

\* int, as wide as half a u_long.
IntMod == 2 ^ (ULongBits \div 2)
ToInt(x) == LET m == x % IntMod IN IF m >= IntMod \div 2 THEN m - IntMod ELSE m

\* std::accumulate(first, last, 0): the accumulator has the type of the
\* initial value 0, int.
RECURSIVE accumulate_int(_, _)
accumulate_int(values, init) ==
  IF values = <<>> THEN init
  ELSE accumulate_int(Tail(values), ToInt((init + Head(values)) % ULongMod))

\* Monitor::sum_cur_cpu_time_
sum_cur_cpu_time_ == accumulate_int(subvect(<<"cpu">> \o proc_stat, 1, 4), 0) % ULongMod

\* The address of a new Pid object for PID pid: one no object of h lives at
\* (the PID's own number when that is free, else the smallest free one).
NewAddress(h, pid) ==
  IF pid \notin DOMAIN h THEN pid
  ELSE CHOOSE a \in 1..(Cardinality(DOMAIN h) + 1) :
         a \notin DOMAIN h /\ \A b \in 1..(a - 1) : b \in DOMAIN h

\* The objects some shared_ptr of the two vectors still points to.
Collect(h, p, s) == [a \in (Range(p) \cup Range(s)) \cap DOMAIN h |-> h[a]]

\* A loop over the listed PIDs that makes a Pid object for each of them
\* without looking whether pids_ has one.
RECURSIVE add_new_pids_unseen(_, _)
add_new_pids_unseen(w, pid_nums) ==
  IF pid_nums = <<>> THEN w
  ELSE add_new_pids_unseen(
         [w EXCEPT !.heap = (NewAddress(w.heap, Head(pid_nums)) :> Pid(Head(pid_nums)))
                            @@ w.heap,
                   !.pids_ = Append(@, NewAddress(w.heap, Head(pid_nums)))],
         Tail(pid_nums))

\* Monitor::update_pids_, lines 74-82: a Pid object for each listed PID that
\* no object of pids_ has.
RECURSIVE add_new_pids(_, _)
add_new_pids(w, pid_nums) ==
  IF pid_nums = <<>> THEN w
  ELSE LET test_pid == Head(pid_nums)
           a == NewAddress(w.heap, test_pid)
       IN  IF \E i \in 1..Len(w.pids_) : w.heap[w.pids_[i]].pid_ = test_pid
             THEN add_new_pids(w, Tail(pid_nums))
             ELSE add_new_pids([w EXCEPT !.heap = (a :> Pid(test_pid)) @@ w.heap,
                                         !.pids_ = Append(@, a)],
                               Tail(pid_nums))

\* The census as a refresh leaves it: the objects and the two vectors.
Census(h, p, s) == [heap |-> h, pids_ |-> p, self_stopped_pids_ |-> s]
NoCensus == Census(<<>>, <<>>, <<>>)

\* A filter of self_stopped_pids_ that forgets to ask whether the process
\* still exists.
keep_self_stopped_any(rec) == rec.is_self_stopped_

\* Monitor::update_pids_, lines 62-64: what stays in self_stopped_pids_.
keep_self_stopped(rec) == rec.is_a_process_ /\ rec.is_self_stopped_

\* Monitor::update_pids_, lines 57-59: update() on every object of pids_.
update_all(h, p, cpu_time) ==
  [a \in DOMAIN h |-> IF a \in Range(p) THEN update(h[a], cpu_time) ELSE h[a]]

\* How many pointers of ptrs are to objects whose stat file was gone at
\* their update.
Gone(h1, ptrs) == Cardinality({i \in 1..Len(ptrs) : ~h1[ptrs[i]].is_a_process_})

\* Monitor::update_pids_, lines 61-64: the two vectors filtered, h1 being
\* the objects after their update. The trace notes how many pointers of each
\* vector were to processes that are gone.
filter_pids(w, h1, p1, s1) ==
  [w EXCEPT !.heap = Collect(h1, p1, s1), !.pids_ = p1, !.self_stopped_pids_ = s1,
            !.trace = Append(@, Ev("update_pids", Gone(h1, w.pids_),
                                   Gone(h1, w.self_stopped_pids_)))]

\* Monitor::update_pids_, lines 57-64.
update_and_filter(w, h1) ==
  LET IsProcess(a) == h1[a].is_a_process_
      Keep(a) == keep_self_stopped(h1[a])
  IN  filter_pids(w, h1, SelectSeq(w.pids_, IsProcess),
                  SelectSeq(w.self_stopped_pids_, Keep))

\* The census update_pids_ leaves, noted in refreshed.
note_census(w) ==
  [w EXCEPT !.refreshed = Census(w.heap, w.pids_, w.self_stopped_pids_)]

\* Monitor::update_pids_ throws what Pid::update or Pid::Pid does not catch:
\* its two loops read the stat file of every process there is.
update_pids_throws == \E p \in Pids : proc[p].alive /\ read_stat_throws(p)

\* Monitor::update_pids_
update_pids_(w) ==
  note_census(
    add_new_pids(update_and_filter(w, update_all(w.heap, w.pids_, sum_cur_cpu_time_)),
                 ls_pids(1)))

\* A test of find_SIGSTOP_available_pids_ that does not ask for is_ready().
is_SIGSTOP_available_unready(rec) ==
  rec.is_a_process_ /\ ~rec.is_whitelisted_ /\ ~rec.is_self_stopped_

\* A test of find_SIGSTOP_available_pids_ that does not ask whether the
\* object is marked as stopped.
is_SIGSTOP_available_marked(rec) ==
  rec.is_a_process_ /\ rec.is_ready_ /\ ~rec.is_whitelisted_

\* Monitor::find_SIGSTOP_available_pids_: the test of one object.
is_SIGSTOP_available(rec) ==
  rec.is_a_process_ /\ rec.is_ready_ /\ ~rec.is_whitelisted_ /\ ~rec.is_self_stopped_

\* Monitor::find_SIGSTOP_available_pids_
find_SIGSTOP_available_pids_(w) ==
  LET Available(a) == is_SIGSTOP_available(w.heap[a])
  IN  SelectSeq(w.pids_, Available)

\* pid_ptr->send_SIGSTOP() and pid_ptr->send_SIGCONT() on the object at a.
SendSignal(w, a, sig) ==
  [w EXCEPT !.proc = kill(@, w.heap[a].pid_, sig),
            !.heap[a] = IF sig = 19 THEN send_SIGSTOP(@) ELSE send_SIGCONT(@),
            !.trace = Append(@, Ev("kill", w.heap[a].pid_, sig))]

\* The comparator of send_next_SIGSTOP_ (lines 162-164).
SIGSTOP_comp(a, b) == FloatGreater(a, b)
\* The comparator of send_next_SIGCONT_ (lines 148-150).
SIGCONT_comp(a, b) == FloatLess(a, b)

\* std::max_element(first, last, comp) of send_next_SIGSTOP_: the index
\* (1-based) of the element it returns; seq is not empty. It keeps the
\* first element for which comp(largest, element) is false for every element.
RECURSIVE max_element(_, _, _)
max_element(seq, largest, i) ==
  IF i > Len(seq) THEN largest
  ELSE max_element(seq, IF SIGSTOP_comp(seq[largest], seq[i]) THEN i ELSE largest, i + 1)

\* std::min_element(first, last, comp) of send_next_SIGCONT_.
RECURSIVE min_element(_, _, _)
min_element(seq, smallest, i) ==
  IF i > Len(seq) THEN smallest
  ELSE min_element(seq, IF SIGCONT_comp(seq[i], seq[smallest]) THEN i ELSE smallest, i + 1)

\* Pid::pid_cpu_pct throws InternalError on an object that is not ready. The
\* comparators call it on every element of a range of two or more.
pid_cpu_pct_throws(w, ptrs) ==
  Len(ptrs) > 1 /\ \E i \in 1..Len(ptrs) : ~w.heap[ptrs[i]].is_ready_

\* The log line and the signal of send_next_SIGCONT_ (lines 152-154).
log_and_SIGCONT(w, pid_ptr) ==
  SendSignal(Log(w, "log_SIGCONT", w.heap[pid_ptr].pid_, 0), pid_ptr, 18)

\* The log line, the signal and the push_back of send_next_SIGSTOP_
\* (lines 167-170).
log_and_SIGSTOP(w, pid_ptr) ==
  [SendSignal(Log(w, "log_SIGSTOP", w.heap[pid_ptr].pid_, 0), pid_ptr, 19)
     EXCEPT !.self_stopped_pids_ = Append(@, pid_ptr)]

\* The shares of the objects ptrs points to.
pcts_of(w, ptrs) == [i \in 1..Len(ptrs) |-> w.heap[ptrs[i]].pid_cpu_pct_]

\* Monitor::send_next_SIGCONT_
send_next_SIGCONT_(w) ==
  IF pid_cpu_pct_throws(w, w.self_stopped_pids_)
    THEN [w EXCEPT !.thrown = "InternalError"]
  ELSE IF Len(w.self_stopped_pids_) > 0
    THEN log_and_SIGCONT(
           w, w.self_stopped_pids_[min_element(pcts_of(w, w.self_stopped_pids_), 1, 2)])
    ELSE w

\* Monitor::send_next_SIGSTOP_
send_next_SIGSTOP_(w, available_pids) ==
  IF pid_cpu_pct_throws(w, available_pids)
    THEN [w EXCEPT !.thrown = "InternalError"]
  ELSE IF available_pids # <<>>
    THEN log_and_SIGSTOP(
           w, available_pids[max_element(pcts_of(w, available_pids), 1, 2)])
    ELSE w

\* Monitor::send_all_SIGCONTs_, from the i-th element on.
RECURSIVE send_all_SIGCONTs_from(_, _)
send_all_SIGCONTs_from(w, i) ==
  IF i > Len(w.self_stopped_pids_) THEN w
  ELSE send_all_SIGCONTs_from(SendSignal(w, w.self_stopped_pids_[i], 18), i + 1)

\* Monitor::send_all_SIGCONTs_
send_all_SIGCONTs_(w) == send_all_SIGCONTs_from(w, 1)

\* A send_all_SIGSTOPs_ that stops after the first element.
send_all_SIGSTOPs_first(w, available_pids) ==
  IF available_pids = <<>> THEN w
  ELSE LET v == Head(available_pids)
           w1 == SendSignal(w, v, 19)
       IN  [w1 EXCEPT !.self_stopped_pids_ = Append(@, v)]

\* Monitor::send_all_SIGSTOPs_
RECURSIVE send_all_SIGSTOPs_(_, _)
send_all_SIGSTOPs_(w, available_pids) ==
  IF available_pids = <<>> THEN w
  ELSE LET v == Head(available_pids)
           w1 == SendSignal(w, v, 19)
       IN  send_all_SIGSTOPs_([w1 EXCEPT !.self_stopped_pids_ = Append(@, v)],
                              Tail(available_pids))

\* The switch exec_SIGCONT_ reads to choose between one and all (line 191).
exec_SIGCONT_stepwise == cfg.use_stepwise_SIGSTOP

\* Monitor::exec_SIGCONT_, lines 191-195.
exec_SIGCONT_send(w) ==
  IF exec_SIGCONT_stepwise THEN send_next_SIGCONT_(w) ELSE send_all_SIGCONTs_(w)

\* An exec_SIGCONT_ that refreshes the census whatever self_stopped_pids_
\* holds.
exec_SIGCONT_always(w0) ==
  exec_SIGCONT_send(update_pids_(Log(w0, "exec_SIGCONT", 0, 0)))

\* Monitor::exec_SIGCONT_
exec_SIGCONT_(w0) ==
  IF Len(w0.self_stopped_pids_) > 0
    THEN IF ~cfg.use_SIGSTOP
           THEN assert_SIGSTOP_mode_(Log(w0, "exec_SIGCONT", 0, 0))
         ELSE IF update_pids_throws
           THEN [Log(w0, "exec_SIGCONT", 0, 0) EXCEPT !.thrown = "TypeError"]
           ELSE exec_SIGCONT_send(update_pids_(Log(w0, "exec_SIGCONT", 0, 0)))
    ELSE Log(w0, "exec_SIGCONT", 0, 0)

\* Monitor::exec_SIGSTOP_, lines 202-208.
exec_SIGSTOP_send(w, available_pids) ==
  IF Len(available_pids) > 0
    THEN IF cfg.use_stepwise_SIGSTOP
           THEN send_next_SIGSTOP_(w, available_pids)
           ELSE send_all_SIGSTOPs_(w, available_pids)
    ELSE w

\* Monitor::exec_SIGSTOP_, lines 201-208.
exec_SIGSTOP_find(w) == exec_SIGSTOP_send(w, find_SIGSTOP_available_pids_(w))

\* An exec_SIGSTOP_ that sends to the candidates of the census as it is, and
\* refreshes the census afterwards.
exec_SIGSTOP_late_refresh(w0) ==
  update_pids_(exec_SIGSTOP_find(Log(w0, "exec_SIGSTOP", 0, 0)))

\* Monitor::exec_SIGSTOP_
exec_SIGSTOP_(w0) ==
  IF ~cfg.use_SIGSTOP THEN assert_SIGSTOP_mode_(Log(w0, "exec_SIGSTOP", 0, 0))
  ELSE IF update_pids_throws
    THEN [Log(w0, "exec_SIGSTOP", 0, 0) EXCEPT !.thrown = "TypeError"]
  ELSE exec_SIGSTOP_find(update_pids_(Log(w0, "exec_SIGSTOP", 0, 0)))

\* FileCollection::overwrite(file_index, line) on scaling_max_freq_files_;
\* i is the 1-based index of the CPU.
overwrite(w, i, line) ==
  [w EXCEPT !.scaling_max_freq[i] = line,
            !.trace = Append(@, Ev("overwrite", i, line))]

\* An is_below_max_speed_ that counts a CPU at its maximum as below it.
is_at_or_below_max_speed_(cur_speeds) ==
  LET max_speeds == IF cfg.use_scaling_available
                      THEN [i \in Cpus |-> SeqMax(cfg.scaling_available_frequencies[i])]
                      ELSE cfg.cpuinfo_max_freqs
  IN  \E i \in 1..Len(cur_speeds) : cur_speeds[i] <= max_speeds[i]

\* An is_above_min_speed_ that counts a CPU at its minimum as above it.
is_at_or_above_min_speed_(cur_speeds) ==
  LET min_speeds == IF cfg.use_scaling_available
                      THEN [i \in Cpus |-> SeqMin(cfg.scaling_available_frequencies[i])]
                      ELSE cfg.cpuinfo_min_freqs
  IN  \E i \in 1..Len(cur_speeds) : cur_speeds[i] >= min_speeds[i]

\* Monitor::is_below_max_speed_
is_below_max_speed_(cur_speeds) ==
  LET max_speeds == IF cfg.use_scaling_available
                      THEN [i \in Cpus |-> SeqMax(cfg.scaling_available_frequencies[i])]
                      ELSE cfg.cpuinfo_max_freqs
  IN  \E i \in 1..Len(cur_speeds) : cur_speeds[i] < max_speeds[i]

\* Monitor::is_above_min_speed_
is_above_min_speed_(cur_speeds) ==
  LET min_speeds == IF cfg.use_scaling_available
                      THEN [i \in Cpus |-> SeqMin(cfg.scaling_available_frequencies[i])]
                      ELSE cfg.cpuinfo_min_freqs
  IN  \E i \in 1..Len(cur_speeds) : cur_speeds[i] > min_speeds[i]

\* A loop that settles on the last ladder value above speed it meets.
RECURSIVE next_higher_last(_, _, _)
next_higher_last(avail_speeds, speed, next) ==
  IF avail_speeds = <<>> THEN next
  ELSE LET v == Head(avail_speeds)
       IN  next_higher_last(Tail(avail_speeds), speed, IF v > speed THEN v ELSE next)

\* The inner loop of dethrottle_next_higher_ (lines 219-221).
RECURSIVE next_higher(_, _, _)
next_higher(avail_speeds, speed, next) ==
  IF avail_speeds = <<>> THEN next
  ELSE LET v == Head(avail_speeds)
       IN  next_higher(Tail(avail_speeds), speed,
                       IF v < next /\ v > speed THEN v ELSE next)

\* A loop that settles on the last ladder value below speed it meets.
RECURSIVE next_lower_last(_, _, _)
next_lower_last(avail_speeds, speed, next) ==
  IF avail_speeds = <<>> THEN next
  ELSE LET v == Head(avail_speeds)
       IN  next_lower_last(Tail(avail_speeds), speed, IF v < speed THEN v ELSE next)

\* The inner loop of throttle_next_lower_ (lines 235-237).
RECURSIVE next_lower(_, _, _)
next_lower(avail_speeds, speed, next) ==
  IF avail_speeds = <<>> THEN next
  ELSE LET v == Head(avail_speeds)
       IN  next_lower(Tail(avail_speeds), speed,
                      IF v > next /\ v < speed THEN v ELSE next)

\* A throttle_next_lower_ that ends after the CPU it begins with.
throttle_next_lower_first(w, cur_speeds, i) ==
  IF i > Len(cur_speeds) THEN w
  ELSE LET next == next_lower(cfg.scaling_available_frequencies[i], cur_speeds[i], 0)
       IN  IF next # 0 THEN overwrite(w, i, next) ELSE w

\* Monitor::dethrottle_next_higher_, from CPU i on.
RECURSIVE dethrottle_next_higher_(_, _, _)
dethrottle_next_higher_(w, cur_speeds, i) ==
  IF i > Len(cur_speeds) THEN w
  ELSE LET next == next_higher(cfg.scaling_available_frequencies[i],
                               cur_speeds[i], ULONG_MAX)
       IN  dethrottle_next_higher_(
             IF next # ULONG_MAX THEN overwrite(w, i, next) ELSE w, cur_speeds, i + 1)

\* Monitor::throttle_next_lower_, from CPU i on.
RECURSIVE throttle_next_lower_(_, _, _)
throttle_next_lower_(w, cur_speeds, i) ==
  IF i > Len(cur_speeds) THEN w
  ELSE LET next == next_lower(cfg.scaling_available_frequencies[i], cur_speeds[i], 0)
       IN  throttle_next_lower_(
             IF next # 0 THEN overwrite(w, i, next) ELSE w, cur_speeds, i + 1)

\* A dethrottle_highest_ that writes only to the CPUs below their maximum.
RECURSIVE dethrottle_highest_below(_, _)
dethrottle_highest_below(w, i) ==
  IF i > Len(w.scaling_max_freq) THEN w
  ELSE dethrottle_highest_below(
         IF w.scaling_max_freq[i] < cfg.cpuinfo_max_freqs[i]
           THEN overwrite(w, i, cfg.cpuinfo_max_freqs[i]) ELSE w,
         i + 1)

\* A throttle_lowest_ that writes to every CPU.
RECURSIVE throttle_lowest_all(_, _)
throttle_lowest_all(w, i) ==
  IF i > Len(w.scaling_max_freq) THEN w
  ELSE throttle_lowest_all(overwrite(w, i, cfg.cpuinfo_min_freqs[i]), i + 1)

\* Monitor::dethrottle_highest_, from CPU i on.
RECURSIVE dethrottle_highest_(_, _)
dethrottle_highest_(w, i) ==
  IF i > Len(w.scaling_max_freq) THEN w
  ELSE dethrottle_highest_(overwrite(w, i, cfg.cpuinfo_max_freqs[i]), i + 1)

\* Monitor::throttle_lowest_, from CPU i on.
RECURSIVE throttle_lowest_(_, _)
throttle_lowest_(w, i) ==
  IF i > Len(w.scaling_max_freq) THEN w
  ELSE throttle_lowest_(
         IF w.scaling_max_freq[i] > cfg.cpuinfo_min_freqs[i]
           THEN overwrite(w, i, cfg.cpuinfo_min_freqs[i]) ELSE w,
         i + 1)

\* FileCollection::read and max_line: File::open_read_ throws IOError when a
\* file of the collection is missing or cannot be opened.
read_throws(files) == files \in unreadable
Throw(w, name) == [w EXCEPT !.thrown = name]

\* FileCollection::read on scaling_max_freq_files_: the trace notes, for each
\* CPU, the ceiling read.
read(w) ==
  [w EXCEPT !.trace = @ \o [i \in 1..Len(w.scaling_max_freq) |->
                               Ev("read", i, w.scaling_max_freq[i])]]

\* The size of max_speeds (of min_speeds) in is_below_max_speed_ (in
\* is_above_min_speed_): one entry per ladder, or the cpuinfo vector's.
speeds_size(cpuinfo_freqs) ==
  IF cfg.use_scaling_available THEN Len(cfg.scaling_available_frequencies)
  ELSE Len(cpuinfo_freqs)

\* Monitor::exec_dethrottle_ after its read of the files, lines 265-272;
\* is_below_max_speed_ throws when the sizes differ.
exec_dethrottle_act(w, cur_speeds) ==
  IF Len(cur_speeds) # speeds_size(cfg.cpuinfo_max_freqs) THEN Throw(w, "InternalError")
  ELSE IF is_below_max_speed_(cur_speeds)
    THEN IF cfg.use_scaling_available
           THEN dethrottle_next_higher_(Log(w, "log_dethrottle", 0, 0), cur_speeds, 1)
           ELSE dethrottle_highest_(Log(w, "log_dethrottle", 0, 0), 1)
    ELSE w

\* Monitor::exec_dethrottle_
exec_dethrottle_(w0) ==
  IF ~cfg.use_throttle THEN assert_throttle_mode_(Log(w0, "exec_dethrottle", 0, 0))
  ELSE IF read_throws("scaling_max_freq")
    THEN Throw(Log(w0, "exec_dethrottle", 0, 0), "IOError")
    ELSE exec_dethrottle_act(read(Log(w0, "exec_dethrottle", 0, 0)),
                             w0.scaling_max_freq)

\* Monitor::exec_throttle_ after its read of the files, lines 277-284;
\* is_above_min_speed_ throws when the sizes differ.
exec_throttle_act(w, cur_speeds) ==
  IF Len(cur_speeds) # speeds_size(cfg.cpuinfo_min_freqs) THEN Throw(w, "InternalError")
  ELSE IF is_above_min_speed_(cur_speeds)
    THEN IF cfg.use_scaling_available
           THEN throttle_next_lower_(Log(w, "log_throttle", 0, 0), cur_speeds, 1)
           ELSE throttle_lowest_(Log(w, "log_throttle", 0, 0), 1)
    ELSE w

\* Monitor::exec_throttle_
exec_throttle_(w0) ==
  IF ~cfg.use_throttle THEN assert_throttle_mode_(Log(w0, "exec_throttle", 0, 0))
  ELSE IF read_throws("scaling_max_freq")
    THEN Throw(Log(w0, "exec_throttle", 0, 0), "IOError")
    ELSE exec_throttle_act(read(Log(w0, "exec_throttle", 0, 0)),
                           w0.scaling_max_freq)

\* Monitor::run_, lines 317-321: one pass of the throttle-only loop.
run_throttle(w, max_temp) ==
  IF ~cfg.use_throttle THEN assert_throttle_mode_(w)
  ELSE IF max_temp > cfg.temp_throttle THEN exec_throttle_(w)
  ELSE IF max_temp < cfg.temp_dethrottle THEN exec_dethrottle_(w)
  ELSE w

\* A SIGSTOP-only pass whose comparisons include the thresholds.
run_SIGSTOP_closed(w, max_temp) ==
  IF max_temp >= cfg.temp_SIGSTOP THEN exec_SIGSTOP_(w)
  ELSE IF max_temp <= cfg.temp_SIGCONT THEN exec_SIGCONT_(w)
  ELSE w

\* A pass of the SIGSTOP-only loop that throttles before it stops.
run_SIGSTOP_throttling(w, max_temp) ==
  IF max_temp > cfg.temp_SIGSTOP
    THEN LET w1 == exec_throttle_(w)
         IN  IF w1.thrown = "none" THEN exec_SIGSTOP_(w1) ELSE w1
  ELSE IF max_temp < cfg.temp_SIGCONT THEN exec_SIGCONT_(w)
  ELSE w

\* Monitor::run_, lines 328-332: one pass of the SIGSTOP-only loop.
run_SIGSTOP(w, max_temp) ==
  IF ~cfg.use_SIGSTOP THEN assert_SIGSTOP_mode_(w)
  ELSE IF max_temp > cfg.temp_SIGSTOP THEN exec_SIGSTOP_(w)
  ELSE IF max_temp < cfg.temp_SIGCONT THEN exec_SIGCONT_(w)
  ELSE w

\* A pass with throttle and SIGSTOP that treats the two controls one after
\* the other, each as its own regime does.
run_both_independent(w, max_temp) ==
  run_SIGSTOP(run_throttle(w, max_temp), max_temp)

\* A pass with throttle and SIGSTOP that runs both upper actions as soon as
\* either upper threshold is exceeded, and both lower actions likewise.
run_both_together(w, max_temp) ==
  IF max_temp > cfg.temp_throttle \/ max_temp > cfg.temp_SIGSTOP
    THEN exec_SIGSTOP_(exec_throttle_(w))
  ELSE IF max_temp < cfg.temp_dethrottle \/ max_temp < cfg.temp_SIGCONT
    THEN exec_SIGCONT_(exec_dethrottle_(w))
  ELSE w

\* Monitor::run_, lines 295-310: one pass of the loop with throttle and SIGSTOP.
run_both(w, max_temp) ==
  IF ~cfg.use_throttle THEN assert_throttle_mode_(w)
  ELSE IF ~cfg.use_SIGSTOP THEN assert_SIGSTOP_mode_(w)
  ELSE IF max_temp > cfg.temp_throttle \/ max_temp > cfg.temp_SIGSTOP
    THEN LET w1 == IF max_temp > cfg.temp_throttle THEN exec_throttle_(w) ELSE w
         IN  IF w1.thrown = "none" /\ max_temp > cfg.temp_SIGSTOP
               THEN exec_SIGSTOP_(w1) ELSE w1
  ELSE IF max_temp < cfg.temp_dethrottle \/ max_temp < cfg.temp_SIGCONT
    THEN LET w1 == IF max_temp < cfg.temp_dethrottle THEN exec_dethrottle_(w) ELSE w
         IN  IF w1.thrown = "none" /\ max_temp < cfg.temp_SIGCONT
               THEN exec_SIGCONT_(w1) ELSE w1
  ELSE w

\* What a tick starts from: the state, and the sensor reading as the first
\* entry of a new trace.
World(max_temp) ==
  [heap |-> heap, pids_ |-> pids_, self_stopped_pids_ |-> self_stopped_pids_,
   proc |-> proc, scaling_max_freq |-> scaling_max_freq,
   trace |-> <<Ev("max_line", max_temp, 0)>>, refreshed |-> NoCensus,
   thrown |-> "none"]

\* A max_line() whose failure is swallowed: the tick goes on to its sleep.
max_line_swallowed(w) == w

\* Monitor::run_, the first statement of each loop: max_line() of the
\* thermal files throws before anything of the tick has run.
max_line_throws(w) ==
  IF read_throws("thermal") THEN Throw([w EXCEPT !.trace = <<>>], "IOError") ELSE w

\* main, lines 89-95: what Monitor throws is written by Logger::err and
\* main returns 1.
main_catch(w) ==
  [w EXCEPT !.trace =
     @ \o <<Ev(IF w.thrown = "IOError" THEN "err_IOError"
               ELSE IF w.thrown = "TypeError" THEN "err_TypeError"
               ELSE "err_InternalError",
               0, 0),
            Ev("return", 1, 0)>>]

\* The state a tick ends in: after its sleep, or with the daemon ended by
\* what was thrown.
Commit(w) ==
  /\ heap' = w.heap
  /\ pids_' = w.pids_
  /\ self_stopped_pids_' = w.self_stopped_pids_
  /\ proc' = w.proc
  /\ scaling_max_freq' = w.scaling_max_freq
  /\ trace' = IF w.thrown = "none" THEN Append(w.trace, Ev("sleep", 0, 0))
              ELSE main_catch(w).trace
  /\ refreshed' = w.refreshed
  /\ pc' = IF w.thrown = "none" THEN pc ELSE w.thrown
  /\ UNCHANGED <<cfg, proc_stat, unreadable>>

(***************************************************************************)
(* Actions                                                                 *)
(***************************************************************************)
\* One pass of the loop of run_ that uses throttle and SIGSTOP.
TickBoth ==
  /\ pc = "run" /\ cfg.use_throttle /\ cfg.use_SIGSTOP
  /\ \E max_temp \in Temps :
       Commit(IF read_throws("thermal") THEN max_line_throws(World(max_temp))
              ELSE run_both(World(max_temp), max_temp))

\* One pass of the loop of run_ that uses throttle only.
TickThrottle ==
  /\ pc = "run" /\ cfg.use_throttle /\ ~cfg.use_SIGSTOP
  /\ \E max_temp \in Temps :
       Commit(IF read_throws("thermal") THEN max_line_throws(World(max_temp))
              ELSE run_throttle(World(max_temp), max_temp))

\* One pass of the loop of run_ that uses SIGSTOP only.
TickSIGSTOP ==
  /\ pc = "run" /\ ~cfg.use_throttle /\ cfg.use_SIGSTOP
  /\ \E max_temp \in Temps :
       Commit(IF read_throws("thermal") THEN max_line_throws(World(max_temp))
              ELSE run_SIGSTOP(World(max_temp), max_temp))

\* A process with a free PID starts.
EnvSpawn ==
  /\ pc = "run"
  /\ \E p \in Pids \ {own_pid} :
       /\ ~proc[p].alive
       /\ proc' = [proc EXCEPT ![p] = [alive |-> TRUE, state |-> "R", utime |-> 0]]
  /\ UNCHANGED <<cfg, proc_stat, scaling_max_freq, heap, pids_, self_stopped_pids_,
                 pc, trace, refreshed, unreadable>>

\* A process with a free PID starts under a command name of its own choice;
\* the kernel shows the name between parentheses.
EnvExec ==
  /\ pc = "run"
  /\ \E p \in Pids \ {own_pid}, name \in CommNames :
       /\ ~proc[p].alive
       /\ proc' = [proc EXCEPT ![p] = [alive |-> TRUE, state |-> "R", utime |-> 0,
                                       comm |-> <<"(">> \o name \o <<")">>]]
  /\ UNCHANGED <<cfg, proc_stat, scaling_max_freq, heap, pids_, self_stopped_pids_,
                 pc, trace, refreshed, unreadable>>

\* A process ends; its /proc entry is gone.
EnvExit ==
  /\ pc = "run"
  /\ \E p \in Pids \ {own_pid} :
       /\ proc[p].alive
       /\ proc' = [proc EXCEPT ![p].alive = FALSE]
  /\ UNCHANGED <<cfg, proc_stat, scaling_max_freq, heap, pids_, self_stopped_pids_,
                 pc, trace, refreshed, unreadable>>

\* One clock tick passes with the CPU idle.
EnvIdle ==
  /\ pc = "run"
  /\ proc_stat[1] + proc_stat[2] + proc_stat[3] + proc_stat[4] < MaxTime
  /\ proc_stat' = [proc_stat EXCEPT ![4] = @ + 1]
  /\ UNCHANGED <<cfg, proc, scaling_max_freq, heap, pids_, self_stopped_pids_,
                 pc, trace, refreshed, unreadable>>

\* One clock tick passes with a running process on the CPU.
EnvRun ==
  /\ pc = "run"
  /\ proc_stat[1] + proc_stat[2] + proc_stat[3] + proc_stat[4] < MaxTime
  /\ \E p \in Pids \ {own_pid} :
       /\ proc[p].alive /\ proc[p].state = "R"
       /\ proc' = [proc EXCEPT ![p].utime = @ + 1]
  /\ proc_stat' = [proc_stat EXCEPT ![1] = @ + 1]
  /\ UNCHANGED <<cfg, scaling_max_freq, heap, pids_, self_stopped_pids_, pc, trace,
                 refreshed, unreadable>>

\* Another writer (a governor, an administrator) leaves its own value in
\* the scaling_max_freq file of one CPU.
EnvWrite ==
  /\ pc = "run"
  /\ \E i \in Cpus, f \in 1..MaxFreq :
       /\ scaling_max_freq[i] # f
       /\ scaling_max_freq' = [scaling_max_freq EXCEPT ![i] = f]
  /\ UNCHANGED <<cfg, proc, proc_stat, heap, pids_, self_stopped_pids_, pc, trace,
                 refreshed, unreadable>>

\* The thermal files, or the scaling_max_freq files, stop being readable.
EnvUnreadable ==
  /\ pc = "run"
  /\ \E files \in {"thermal", "scaling_max_freq"} :
       /\ files \notin unreadable
       /\ unreadable' = unreadable \cup {files}
  /\ UNCHANGED <<cfg, proc, proc_stat, scaling_max_freq, heap, pids_,
                 self_stopped_pids_, pc, trace, refreshed>>

\* The loop of update_pids_ (lines 57-59) taken one update() at a time, in a
\* pass of the SIGSTOP-only loop that runs exec_SIGSTOP_.  Between the
\* updates the clock and the processes go on.  The trace of the pass in
\* progress ends with exec_SIGSTOP or with the last update.
InUpdateLoop ==
  /\ trace # <<>>
  /\ trace[Len(trace)].op \in {"exec_SIGSTOP", "update"}

\* How many objects of pids_ the loop of update_pids_ has updated.
Updated == Cardinality({k \in 1..Len(trace) : trace[k].op = "update"})

\* run_ reads a max_temp above temp_SIGSTOP and enters exec_SIGSTOP_.
RefreshEnter ==
  /\ pc = "run" /\ ~cfg.use_throttle /\ cfg.use_SIGSTOP /\ ~InUpdateLoop
  /\ \E max_temp \in Temps :
       /\ max_temp > cfg.temp_SIGSTOP
       /\ trace' = <<Ev("max_line", max_temp, 0), Ev("exec_SIGSTOP", 0, 0)>>
  /\ refreshed' = NoCensus
  /\ UNCHANGED <<cfg, proc, proc_stat, scaling_max_freq, heap, pids_,
                 self_stopped_pids_, pc, unreadable>>

\* One turn of the loop of update_pids_: v->update(sum_cur_cpu_time_()), with
\* /proc/stat read for this object.
RefreshUpdate ==
  /\ pc = "run" /\ InUpdateLoop /\ Updated < Len(pids_)
  /\ heap' = [heap EXCEPT ![pids_[Updated + 1]] = update(@, sum_cur_cpu_time_)]
  /\ trace' = Append(trace, Ev("update", pids_[Updated + 1], sum_cur_cpu_time_))
  /\ UNCHANGED <<cfg, proc, proc_stat, scaling_max_freq, pids_, self_stopped_pids_,
                 pc, refreshed, unreadable>>

\* The loop is through: the rest of update_pids_ and of exec_SIGSTOP_, and
\* the sleep.
RefreshFinish ==
  /\ pc = "run" /\ InUpdateLoop /\ Updated = Len(pids_)
  /\ Commit(exec_SIGSTOP_find(
              note_census(
                add_new_pids(update_and_filter([World(0) EXCEPT !.trace = trace], heap),
                             ls_pids(1)))))

(***************************************************************************)
(* Specifications                                                          *)
(***************************************************************************)
ThresholdValues == {0, 2}

\* The configurations of Spec: every choice of the two mode switches and of
\* the four thresholds, with PID 3 on whitelist_pid.
RawConfigs ==
  {sw @@ th @@ [DefaultWhitelist EXCEPT !.whitelist_pid = << <<3>> >>] @@ DefaultSwitches @@ DefaultSysfs :
     sw \in [use_throttle : BOOLEAN, use_SIGSTOP : BOOLEAN],
     th \in [temp_SIGSTOP : ThresholdValues, temp_SIGCONT : ThresholdValues,
             temp_throttle : ThresholdValues, temp_dethrottle : ThresholdValues]}

\* The configurations of SpecCensus: SIGSTOP only, with every choice of the
\* two stepwise switches under the default whitelists, and the default
\* switches under whitelist_state T and under whitelist_comm *.
CensusSwitches ==
  [use_throttle |-> FALSE, use_SIGSTOP |-> TRUE, temp_SIGSTOP |-> 2,
   temp_SIGCONT |-> 2, temp_throttle |-> 2, temp_dethrottle |-> 0]

CensusConfigs ==
  {sw @@ CensusSwitches @@ DefaultWhitelist @@ DefaultSwitches @@ DefaultSysfs :
     sw \in [use_stepwise_SIGSTOP : BOOLEAN, use_stepwise_SIGCONT : BOOLEAN]}
  \cup
  {CensusSwitches @@ wl @@ DefaultSwitches @@ DefaultSysfs :
     wl \in {[DefaultWhitelist EXCEPT !.whitelist_state = <<"T">>],
             [DefaultWhitelist EXCEPT !.whitelist_comm = <<Str_star>>]}}

\* The state Monitor's constructor enters run_ in, for the Config object c,
\* on a machine whose /proc/stat holds the four columns of stat.
InitAt(c, stat) ==
  /\ cfg = c
  /\ pc = IF c.error = "none" THEN "run" ELSE c.error
  /\ proc = [p \in Pids |-> [alive |-> p = own_pid, state |-> "R", utime |-> 0]]
  /\ proc_stat = stat
  /\ scaling_max_freq = [i \in Cpus |-> SeqMax(LadderOf(i))]
  /\ heap = <<>>
  /\ pids_ = <<>>
  /\ self_stopped_pids_ = <<>>
  /\ trace = <<>>
  /\ refreshed = NoCensus
  /\ unreadable = {}

\* The same on a machine that has just booted.
InitWith(c) == InitAt(c, <<0, 0, 0, 0>>)

Init == \E raw \in RawConfigs : InitWith(Config(raw))

Next ==
  \/ TickBoth
  \/ TickThrottle
  \/ TickSIGSTOP
  \/ EnvSpawn
  \/ EnvExit
  \/ EnvIdle
  \/ EnvRun

\* The supervisor loop in its three regimes.
Spec == Init /\ [][Next]_vars

InitCensus == \E raw \in CensusConfigs : InitWith(Config(raw))

NextCensus ==
  \/ TickSIGSTOP
  \/ EnvSpawn
  \/ EnvExit
  \/ EnvIdle
  \/ EnvRun

\* The SIGSTOP-only loop and the process census.
SpecCensus == InitCensus /\ [][NextCensus]_vars

\* The configurations of SpecThrottle: throttle with and without SIGSTOP,
\* with and without the ladder of scaling_available_frequencies.
ThrottleConfigs ==
  {sw @@ [temp_throttle |-> 2, temp_dethrottle |-> 1, temp_SIGSTOP |-> 2,
          temp_SIGCONT |-> 1] @@ DefaultWhitelist @@ DefaultSwitches @@ DefaultSysfs :
     sw \in [use_SIGSTOP : BOOLEAN, use_scaling_available : BOOLEAN]}

InitThrottle == \E raw \in ThrottleConfigs : InitWith(Config(raw))

NextThrottle ==
  \/ TickBoth
  \/ TickThrottle
  \/ EnvWrite
  \/ EnvUnreadable

\* The loops that throttle, over frequency files that others write too and
\* sysfs files that may stop being readable.
SpecThrottle == InitThrottle /\ [][NextThrottle]_vars

\* The whitelist_pid lines of the config files of SpecConfig: no line, a
\* line without values, lines listing other PIDs, and two lines.
WhitelistPidLines ==
  {<<>>, << <<>> >>, << <<3>> >>, << <<2, 3>> >>, << <<3>>, <<2>> >>}

\* What the matchers of SpecConfig resolve to: the ladder's files are there
\* or not, and cpuinfo_max_freq has no file, too few, or one per CPU.
SysfsChoices ==
  [ls_scaling_available_frequencies : {0, NCpu}, ls_cpuinfo_max_freq : 0..NCpu,
   ls_cpuinfo_min_freq : {NCpu}]

\* The config files of SpecConfig: every choice of the three switches of
\* set_and_assert_config_, of the four thresholds, of the whitelist_pid lines
\* and of the files found.
ConfigFiles ==
  {sw @@ th @@ fs @@ [DefaultWhitelist EXCEPT !.whitelist_pid = wl] @@ DefaultSwitches :
     sw \in [use_throttle : BOOLEAN, use_SIGSTOP : BOOLEAN,
             use_scaling_available : BOOLEAN],
     th \in [temp_SIGSTOP : ThresholdValues, temp_SIGCONT : ThresholdValues,
             temp_throttle : ThresholdValues, temp_dethrottle : ThresholdValues],
     fs \in SysfsChoices, wl \in WhitelistPidLines}

InitConfig == \E raw \in ConfigFiles : InitWith(Config(raw))

NextConfig ==
  \/ TickBoth
  \/ TickThrottle
  \/ TickSIGSTOP

\* Config's constructor over the config files and the files of sysfs, and
\* the loop it hands its thresholds to.
SpecConfig == InitConfig /\ [][NextConfig]_vars

\* The configurations of SpecRefresh: SIGSTOP only, stepwise or not.
RefreshConfigs ==
  {sw @@ CensusSwitches @@ DefaultWhitelist @@ DefaultSwitches @@ DefaultSysfs :
     sw \in [use_stepwise_SIGSTOP : BOOLEAN]}

InitRefresh == \E raw \in RefreshConfigs : InitWith(Config(raw))

NextRefresh ==
  \/ RefreshEnter
  \/ RefreshUpdate
  \/ RefreshFinish
  \/ EnvSpawn
  \/ EnvExit
  \/ EnvIdle
  \/ EnvRun

\* The passes of the SIGSTOP-only loop that refresh the census, with the
\* clock and the processes going on while the records are updated.
SpecRefresh == InitRefresh /\ [][NextRefresh]_vars

\* The configurations of SpecGlob: SIGSTOP only, with one pattern of up to
\* MaxPattern characters on whitelist_comm.
MaxPattern == 3
GlobPatterns == UNION {[1..k -> {"*", "a", ")"}] : k \in 1..MaxPattern}

InitGlob ==
  \E pattern \in GlobPatterns :
    InitWith(Config(CensusSwitches
                    @@ [DefaultWhitelist EXCEPT !.whitelist_comm = <<pattern>>]
                    @@ DefaultSwitches @@ DefaultSysfs))

NextGlob ==
  \/ TickSIGSTOP
  \/ EnvExec

\* The SIGSTOP-only loop with one pattern on whitelist_comm, among processes
\* of every short name.
SpecGlob == InitGlob /\ [][NextGlob]_vars

\* One more pass of the loop of run_, the sensors reading what they read in
\* the pass before.
SteadyPass ==
  /\ pc = "run" /\ trace # <<>>
  /\ \E w \in {IF read_throws("thermal") THEN max_line_throws(World(trace[1].x))
                ELSE IF ~cfg.use_SIGSTOP THEN run_throttle(World(trace[1].x), trace[1].x)
                ELSE IF cfg.use_throttle THEN run_both(World(trace[1].x), trace[1].x)
                ELSE run_SIGSTOP(World(trace[1].x), trace[1].x)} :
       Commit(w)

InitSteady ==
  \E raw \in RawConfigs : raw.use_SIGSTOP /\ InitWith(Config(raw))

NextSteady ==
  \/ TickBoth
  \/ TickSIGSTOP
  \/ EnvSpawn
  \/ EnvExit

\* The ceilings SpecLadder starts from: what another writer has left in the
\* scaling_max_freq files before the daemon starts, within the range of the
\* hardware.
LadderCeilings ==
  {f \in [Cpus -> 1..MaxFreq] :
     \A i \in Cpus : SeqMin(LadderOf(i)) <= f[i] /\ f[i] <= SeqMax(LadderOf(i))}

InitLadder ==
  \E f \in LadderCeilings, th, de \in ThresholdValues :
    /\ de <= th
    /\ cfg = Config([use_throttle |-> TRUE, use_SIGSTOP |-> FALSE,
                     use_scaling_available |-> TRUE, temp_throttle |-> th,
                     temp_dethrottle |-> de, temp_SIGSTOP |-> 2, temp_SIGCONT |-> 2]
                    @@ DefaultWhitelist @@ DefaultSwitches @@ DefaultSysfs)
    /\ pc = IF cfg.error = "none" THEN "run" ELSE cfg.error
    /\ proc = [p \in Pids |-> [alive |-> p = own_pid, state |-> "R", utime |-> 0]]
    /\ proc_stat = <<0, 0, 0, 0>>
    /\ scaling_max_freq = f
    /\ heap = <<>> /\ pids_ = <<>> /\ self_stopped_pids_ = <<>>
    /\ trace = <<>> /\ refreshed = NoCensus /\ unreadable = {}

NextLadder == TickThrottle

\* The throttle-only loop in ladder mode, the daemon being the only writer
\* of the ceilings.  The loop has no exit: after the sleep of a pass the
\* next pass runs, also while the temperature stays where it is.
SpecLadder == InitLadder /\ [][NextLadder]_vars /\ WF_vars(SteadyPass)

\* The loops of run_ that use SIGSTOP, with readable sensors.  The loop has
\* no exit: after the sleep of a pass the next pass runs, also while the
\* temperature stays where it is.
SpecSteady == InitSteady /\ [][NextSteady]_vars /\ WF_vars(SteadyPass)

\* The values of a column of /proc/stat in SpecStat: a machine that has
\* just booted, and machines that have been up for long.
ClockValues == {0, IntMod \div 2, ULONG_MAX \div 4}

InitStat ==
  \E raw \in RefreshConfigs, stat \in [1..4 -> ClockValues] :
    InitAt(Config(raw), stat)

NextStat ==
  \/ TickSIGSTOP
  \/ EnvSpawn
  \/ EnvIdle

\* The SIGSTOP-only loop on machines of every uptime.
SpecStat == InitStat /\ [][NextStat]_vars

(***************************************************************************)
(* Properties                                                              *)
(*                                                                         *)
(* trace and refreshed describe the last tick: what it ran and sent, and   *)
(* the census its refresh produced.                                        *)
(***************************************************************************)
Ticked == pc = "run" /\ trace # <<>>
\* The sensor maximum the last tick read.
LastTemp == trace[1].x
\* The names of what the last tick ran.
Ops == {trace[i].op : i \in 1..Len(trace)}
\* The positions of the last tick's kill(pid, sig) calls.
KillIdx(sig) == {i \in 1..Len(trace) : trace[i].op = "kill" /\ trace[i].y = sig}
\* The PIDs the last tick sent sig to.
Killed(sig) == {trace[i].x : i \in KillIdx(sig)}
\* The positions of the last tick's writes to frequency files.
WriteIdx == {i \in 1..Len(trace) : trace[i].op = "overwrite"}

\* The signal candidates of the last refresh: the records of the census that
\* are of a living process, ready, not whitelisted and not self-stopped.
SignalCandidates ==
  {a \in Range(refreshed.pids_) :
     /\ refreshed.heap[a].is_a_process_
     /\ refreshed.heap[a].is_ready_
     /\ ~refreshed.heap[a].is_whitelisted_
     /\ ~refreshed.heap[a].is_self_stopped_}

\* The self-stopped records of the last refresh.
SelfStoppedAtRefresh == Range(refreshed.self_stopped_pids_)

Share(a) == refreshed.heap[a].pid_cpu_pct_

\* The glob rule for whitelist patterns: the fragments between unescaped
\* stars occur in order in the test string, the first at its start unless
\* the pattern begins with a star, the last at its end unless the pattern
\* ends with one.
RECURSIVE glob_rule(_, _)
glob_rule(pattern, test) ==
  IF pattern = <<>> THEN test = <<>>
  ELSE IF Head(pattern) = "\\" /\ Len(pattern) > 1 /\ pattern[2] = "*"
    THEN test # <<>> /\ Head(test) = "*"
         /\ glob_rule(Tail(Tail(pattern)), Tail(test))
  ELSE IF Head(pattern) = "*"
    THEN \E k \in 0..Len(test) :
           glob_rule(Tail(pattern), SubSeq(test, k + 1, Len(test)))
  ELSE test # <<>> /\ Head(test) = Head(pattern)
       /\ glob_rule(Tail(pattern), Tail(test))

\* The whitelist test on the process with the PID of record rec, as the
\* whitelist rules read: the OR of the ten rules, the comm rule by glob_rule.
RuleWhitelisted(rec) ==
  LET attr == ProcAttr(rec.pid_)
  IN  \/ attr.nice < cfg.whitelist_max_nice
      \/ contains(cfg.whitelist_pid, rec.pid_)
      \/ contains(cfg.whitelist_state, rec.state_)
      \/ contains(cfg.whitelist_ppid, attr.ppid)
      \/ contains(cfg.whitelist_pgrp, attr.pgrp)
      \/ contains(cfg.whitelist_session, attr.session)
      \/ contains(cfg.whitelist_tty_nr, attr.tty_nr)
      \/ contains(cfg.whitelist_tpgid, attr.tpgid)
      \/ contains(cfg.whitelist_flags, attr.flags)
      \/ \E i \in 1..Len(cfg.whitelist_comm) :
           glob_rule(cfg.whitelist_comm[i], attr.comm)

\* C1, as stated: in every tick the stop signal goes only to processes that
\* match no whitelist rule at the refresh of that tick.
C1_StopOnlyUnlisted ==
  Ticked =>
    \A a \in Range(refreshed.pids_) :
      refreshed.heap[a].pid_ \in Killed(19) => ~RuleWhitelisted(refreshed.heap[a])

\* C1, the part the code keeps: in every tick the stop signal goes only to
\* PIDs of census records, and only to records the refresh of that tick
\* evaluated as not whitelisted; never to the daemon's own PID.
C1_StopOnlyEvaluatedUnlisted ==
  Ticked =>
    /\ own_pid \notin Killed(19)
    /\ \A p \in Killed(19) :
         \E a \in Range(refreshed.pids_) :
           refreshed.heap[a].pid_ = p /\ ~refreshed.heap[a].is_whitelisted_

\* C2, as stated: in stepwise-stop mode an exec_SIGSTOP_ that finds
\* candidates stops exactly one of them, and none of the candidates has a
\* higher share than the one stopped.
C2_StepwiseStopsHighest ==
  (Ticked /\ cfg.use_stepwise_SIGSTOP /\ "exec_SIGSTOP" \in Ops
          /\ SignalCandidates # {}) =>
    \E a \in SignalCandidates :
      /\ Cardinality(KillIdx(19)) = 1
      /\ Killed(19) = {refreshed.heap[a].pid_}
      /\ \A b \in SignalCandidates : ~FloatGreater(Share(b), Share(a))

\* C3, as stated: an exec_SIGCONT_ with self-stopped records continues one of
\* them when use_stepwise_SIGCONT is set and all of them when it is not,
\* whatever use_stepwise_SIGSTOP is.
C3_ContinueSwitchDecides ==
  (Ticked /\ "exec_SIGCONT" \in Ops /\ SelfStoppedAtRefresh # {}) =>
    IF cfg.use_stepwise_SIGCONT
      THEN Cardinality(KillIdx(18)) = 1
      ELSE Killed(18) = {refreshed.heap[a].pid_ : a \in SelfStoppedAtRefresh}

\* C4, as stated: in the regime with throttle and SIGSTOP each tick runs
\* exec_SIGSTOP_ and exec_SIGCONT_ exactly when the SIGSTOP-only regime would
\* on that temperature, and exec_throttle_ and exec_dethrottle_ exactly when
\* the throttle-only regime would.
C4_Independent ==
  (Ticked /\ cfg.use_throttle /\ cfg.use_SIGSTOP) =>
    /\ "exec_SIGSTOP" \in Ops <=> LastTemp > cfg.temp_SIGSTOP
    /\ "exec_SIGCONT" \in Ops <=> LastTemp < cfg.temp_SIGCONT
    /\ "exec_throttle" \in Ops <=> LastTemp > cfg.temp_throttle
    /\ "exec_dethrottle" \in Ops <=> LastTemp < cfg.temp_dethrottle

\* A step of the regime with throttle and SIGSTOP that a tick has taken: the
\* environment's steps leave all of these alone.
C4_TickStep ==
  /\ pc = "run" /\ cfg.use_throttle /\ cfg.use_SIGSTOP
  /\ <<heap, pids_, self_stopped_pids_, scaling_max_freq, trace, refreshed>>'
       # <<heap, pids_, self_stopped_pids_, scaling_max_freq, trace, refreshed>>

\* What the two single regimes, one after the other, make of a tick at
\* max_temp, with their lower actions left out when max_temp exceeds an
\* upper threshold.
C4_SingleRegimes(max_temp) ==
  LET w == World(max_temp)
  IN  IF max_temp > cfg.temp_throttle \/ max_temp > cfg.temp_SIGSTOP
        THEN LET w1 == IF max_temp > cfg.temp_throttle
                         THEN run_throttle(w, max_temp) ELSE w
             IN  IF max_temp > cfg.temp_SIGSTOP THEN run_SIGSTOP(w1, max_temp) ELSE w1
        ELSE run_SIGSTOP(run_throttle(w, max_temp), max_temp)

\* C4, amended: in the regime with throttle and SIGSTOP a tick whose
\* max_temp exceeds neither upper threshold does what the throttle-only
\* regime and then the SIGSTOP-only regime would do on that temperature; a
\* tick whose max_temp exceeds an upper threshold does what the regimes of
\* the exceeded thresholds would do, and nothing else: no exec_SIGCONT_ and
\* no exec_dethrottle_.
C4_IndependentUnlessUpperExceeded ==
  [][\A max_temp \in Temps :
       (C4_TickStep /\ trace'[1].x = max_temp) =>
         [heap |-> heap', pids_ |-> pids_',
          self_stopped_pids_ |-> self_stopped_pids_', proc |-> proc',
          scaling_max_freq |-> scaling_max_freq', trace |-> trace',
          refreshed |-> refreshed', thrown |-> "none"]
           = [C4_SingleRegimes(max_temp) EXCEPT
                !.trace = Append(@, Ev("sleep", 0, 0))]]_vars

\* C4's case: a tick with temp_SIGSTOP < max_temp < temp_dethrottle and a
\* CPU below its maximum has run exec_SIGSTOP_ and no exec_dethrottle_.
C4_Witness ==
  /\ Ticked /\ cfg.use_throttle /\ cfg.use_SIGSTOP
  /\ cfg.temp_SIGSTOP < LastTemp /\ LastTemp < cfg.temp_dethrottle
  /\ "exec_SIGSTOP" \in Ops /\ "exec_dethrottle" \notin Ops
  /\ \E i \in Cpus : scaling_max_freq[i] < cfg.cpuinfo_max_freqs[i]

\* C5, as stated: no record of self_stopped_pids_ is whitelisted.
C5_NoWhitelistedSelfStopped ==
  \A i \in 1..Len(self_stopped_pids_) : ~heap[self_stopped_pids_[i]].is_whitelisted_

\* C6: every record of self_stopped_pids_ is a record of pids_.
C6_SelfStoppedInCensus ==
  \A i \in 1..Len(self_stopped_pids_) : self_stopped_pids_[i] \in Range(pids_)

\* C6's case: a continue has been sent in the last tick, a record is still
\* self-stopped, and a process with a record has exited since.
C6_Witness ==
  /\ Ticked /\ KillIdx(18) # {}
  /\ self_stopped_pids_ # <<>>
  /\ \E a \in DOMAIN heap : ~proc[heap[a].pid_].alive

\* C7: in the throttle-only and in the SIGSTOP-only regime a tick runs the
\* upper action exactly when max_temp is above the upper threshold, the
\* lower action exactly when max_temp is below the lower threshold, and with
\* max_temp from the lower to the upper threshold it writes no frequency
\* file and sends no signal.
C7_SingleRegimeTicks ==
  Ticked =>
    /\ (cfg.use_throttle /\ ~cfg.use_SIGSTOP) =>
         /\ "exec_throttle" \in Ops <=> LastTemp > cfg.temp_throttle
         /\ "exec_dethrottle" \in Ops <=> LastTemp < cfg.temp_dethrottle
         /\ "exec_SIGSTOP" \notin Ops /\ "exec_SIGCONT" \notin Ops
         /\ (cfg.temp_dethrottle <= LastTemp /\ LastTemp <= cfg.temp_throttle) =>
              (WriteIdx = {} /\ KillIdx(19) = {} /\ KillIdx(18) = {})
    /\ (~cfg.use_throttle /\ cfg.use_SIGSTOP) =>
         /\ "exec_SIGSTOP" \in Ops <=> LastTemp > cfg.temp_SIGSTOP
         /\ "exec_SIGCONT" \in Ops <=> LastTemp < cfg.temp_SIGCONT
         /\ "exec_throttle" \notin Ops /\ "exec_dethrottle" \notin Ops
         /\ (cfg.temp_SIGCONT <= LastTemp /\ LastTemp <= cfg.temp_SIGSTOP) =>
              (WriteIdx = {} /\ KillIdx(19) = {} /\ KillIdx(18) = {})

\* C7's case: a SIGSTOP-only tick at the upper threshold of a dead zone wider
\* than one value, with a process stopped and another record in the census,
\* has run nothing.
C7_Witness ==
  /\ Ticked /\ ~cfg.use_throttle /\ cfg.use_SIGSTOP
  /\ cfg.temp_SIGCONT < cfg.temp_SIGSTOP /\ LastTemp = cfg.temp_SIGSTOP
  /\ self_stopped_pids_ # <<>> /\ Len(pids_) > 1
  /\ Len(trace) = 2

\* C8: in the regime with throttle and SIGSTOP, a tick whose max_temp is
\* above temp_throttle or above temp_SIGSTOP runs exactly the upper actions
\* whose threshold is exceeded and no lower action; any other tick runs
\* exactly the lower actions whose threshold is undercut and no upper action.
C8_BothRegimeTicks ==
  (Ticked /\ cfg.use_throttle /\ cfg.use_SIGSTOP) =>
    IF LastTemp > cfg.temp_throttle \/ LastTemp > cfg.temp_SIGSTOP
      THEN /\ "exec_throttle" \in Ops <=> LastTemp > cfg.temp_throttle
           /\ "exec_SIGSTOP" \in Ops <=> LastTemp > cfg.temp_SIGSTOP
           /\ "exec_dethrottle" \notin Ops /\ "exec_SIGCONT" \notin Ops
      ELSE /\ "exec_dethrottle" \in Ops <=> LastTemp < cfg.temp_dethrottle
           /\ "exec_SIGCONT" \in Ops <=> LastTemp < cfg.temp_SIGCONT
           /\ "exec_throttle" \notin Ops /\ "exec_SIGSTOP" \notin Ops

\* C8's case: a tick with temp_throttle < max_temp < temp_SIGCONT and a
\* process stopped has run exec_throttle_ and no exec_SIGCONT_.
C8_Witness ==
  /\ Ticked /\ cfg.use_throttle /\ cfg.use_SIGSTOP
  /\ cfg.temp_throttle < LastTemp /\ LastTemp < cfg.temp_SIGCONT
  /\ self_stopped_pids_ # <<>>
  /\ "exec_throttle" \in Ops /\ "exec_SIGCONT" \notin Ops

\* C9, as stated: with use_stepwise_SIGCONT set, an exec_SIGCONT_ with
\* self-stopped records continues exactly one of them, and none of them has
\* a lower share than the one continued.
C9_StepwiseContinuesLowest ==
  (Ticked /\ cfg.use_stepwise_SIGCONT /\ "exec_SIGCONT" \in Ops
          /\ SelfStoppedAtRefresh # {}) =>
    \E a \in SelfStoppedAtRefresh :
      /\ Cardinality(KillIdx(18)) = 1
      /\ Killed(18) = {refreshed.heap[a].pid_}
      /\ \A b \in SelfStoppedAtRefresh : ~FloatLess(Share(b), Share(a))

\* C10: with use_stepwise_SIGSTOP off, an exec_SIGSTOP_ sends the stop
\* signal once to every signal candidate of its refresh and to nothing else,
\* and every one of them is in self_stopped_pids_, marked self-stopped, when
\* the tick ends.
C10_StopsAllCandidates ==
  (Ticked /\ ~cfg.use_stepwise_SIGSTOP /\ "exec_SIGSTOP" \in Ops) =>
    /\ Killed(19) = {refreshed.heap[a].pid_ : a \in SignalCandidates}
    /\ Cardinality(KillIdx(19)) = Cardinality(SignalCandidates)
    /\ \A a \in SignalCandidates :
         /\ \E i \in 1..Len(self_stopped_pids_) : self_stopped_pids_[i] = a
         /\ heap[a].is_self_stopped_

\* C10's case: an exec_SIGSTOP_ with use_stepwise_SIGSTOP off has found two
\* signal candidates.
C10_Witness ==
  /\ Ticked /\ ~cfg.use_stepwise_SIGSTOP /\ "exec_SIGSTOP" \in Ops
  /\ Cardinality(SignalCandidates) = 2
  /\ Cardinality(KillIdx(19)) = 2

\* C11, as stated: when a tick's exec_SIGCONT_, with use_stepwise_SIGCONT off,
\* has found exactly one record P in self_stopped_pids_ (one an earlier
\* exec_SIGSTOP_ put there), then as the tick ends self_stopped_pids_ is
\* empty and P's record is still in pids_.
C11_RoundTrip ==
  (Ticked /\ ~cfg.use_stepwise_SIGCONT /\ "exec_SIGCONT" \in Ops
          /\ Cardinality(SelfStoppedAtRefresh) = 1) =>
    /\ self_stopped_pids_ = <<>>
    /\ SelfStoppedAtRefresh \subseteq Range(pids_)

\* What the code does in C11's case: P has been sent the continue signal and
\* is no longer marked self-stopped, its record is still in pids_, and
\* self_stopped_pids_ still holds it.
C11_RoundTripKeepsEntry ==
  (Ticked /\ ~cfg.use_stepwise_SIGCONT /\ "exec_SIGCONT" \in Ops
          /\ Cardinality(SelfStoppedAtRefresh) = 1) =>
    \A a \in SelfStoppedAtRefresh :
      /\ Killed(18) = {heap[a].pid_}
      /\ ~heap[a].is_self_stopped_
      /\ a \in Range(pids_)
      /\ self_stopped_pids_ = <<a>>

\* The ceilings exec_throttle_ or exec_dethrottle_ has read in the last tick.
ReadSpeeds ==
  [i \in Cpus |->
     trace[CHOOSE k \in 1..Len(trace) : trace[k].op = "read" /\ trace[k].x = i].y]
\* The positions of the last tick's writes to the ceiling file of CPU i.
WritesTo(i) == {k \in WriteIdx : trace[k].x = i}
\* The ladder of CPU i as a set.
LadderValues(i) == Range(cfg.scaling_available_frequencies[i])
SetMax(S) == CHOOSE x \in S : \A y \in S : y <= x
SetMin(S) == CHOOSE x \in S : \A y \in S : x <= y

\* C12: with use_scaling_available set, a tick that runs exec_throttle_ writes
\* to the ceiling file of each CPU, once, the largest value of that CPU's
\* ladder that is strictly less than the ceiling it has read, and writes
\* nothing to the file of a CPU whose ladder has no such value.
C12_DiscreteThrottle ==
  (Ticked /\ cfg.use_scaling_available /\ "exec_throttle" \in Ops) =>
    \A i \in Cpus :
      LET lower == {v \in LadderValues(i) : v < ReadSpeeds[i]}
      IN  IF lower = {} THEN WritesTo(i) = {}
          ELSE /\ Cardinality(WritesTo(i)) = 1
               /\ \A k \in WritesTo(i) : trace[k].y = SetMax(lower)

\* C12's case: exec_throttle_ has read the highest ceiling of its three-step
\* ladder for the first CPU and the lowest of its ladder for the second; it
\* has written the middle step to the first and nothing to the second.
C12_Witness ==
  /\ Ticked /\ cfg.use_scaling_available /\ "exec_throttle" \in Ops
  /\ ReadSpeeds[1] = 3 /\ ReadSpeeds[2] = 2
  /\ WritesTo(2) = {}
  /\ \E k \in WritesTo(1) : trace[k].y = 2

\* C13: with use_scaling_available set, a tick that runs exec_dethrottle_
\* writes to the ceiling file of each CPU, once, the smallest value of that
\* CPU's ladder that is strictly greater than the ceiling it has read, and
\* writes nothing to the file of a CPU whose ladder has no such value.
C13_DiscreteDethrottle ==
  (Ticked /\ cfg.use_scaling_available /\ "exec_dethrottle" \in Ops) =>
    \A i \in Cpus :
      LET higher == {v \in LadderValues(i) : v > ReadSpeeds[i]}
      IN  IF higher = {} THEN WritesTo(i) = {}
          ELSE /\ Cardinality(WritesTo(i)) = 1
               /\ \A k \in WritesTo(i) : trace[k].y = SetMin(higher)

\* C13's case: exec_dethrottle_ has read the lowest ceiling of its three-step
\* ladder for the first CPU and the highest of its ladder for the second; it
\* has written the middle step to the first and nothing to the second.
C13_Witness ==
  /\ Ticked /\ cfg.use_scaling_available /\ "exec_dethrottle" \in Ops
  /\ ReadSpeeds[1] = 1 /\ ReadSpeeds[2] = 4
  /\ WritesTo(2) = {}
  /\ \E k \in WritesTo(1) : trace[k].y = 2

\* C14: with use_scaling_available off, a tick that runs exec_throttle_
\* writes cpuinfo_min_freq, once, to the ceiling file of every CPU whose
\* ceiling it has read strictly above cpuinfo_min_freq, and writes nothing to
\* the file of a CPU whose ceiling is at or below it.
C14_NonDiscreteThrottle ==
  (Ticked /\ ~cfg.use_scaling_available /\ "exec_throttle" \in Ops) =>
    \A i \in Cpus :
      IF ReadSpeeds[i] > cfg.cpuinfo_min_freqs[i]
        THEN /\ Cardinality(WritesTo(i)) = 1
             /\ \A k \in WritesTo(i) : trace[k].y = cfg.cpuinfo_min_freqs[i]
        ELSE WritesTo(i) = {}

\* C14's case: exec_throttle_ has acted with the first CPU above its minimum
\* and the second below its own, and has written to the first only.
C14_Witness ==
  /\ Ticked /\ ~cfg.use_scaling_available /\ "log_throttle" \in Ops
  /\ ReadSpeeds[1] > cfg.cpuinfo_min_freqs[1]
  /\ ReadSpeeds[2] < cfg.cpuinfo_min_freqs[2]
  /\ WritesTo(1) # {} /\ WritesTo(2) = {}

\* C15: with use_scaling_available off, a tick whose exec_dethrottle_ acts
\* (it has read a ceiling strictly below cpuinfo_max_freq) writes
\* cpuinfo_max_freq, once, to the ceiling file of every CPU, whatever ceiling
\* it has read for it.
C15_NonDiscreteDethrottle ==
  (Ticked /\ ~cfg.use_scaling_available /\ "exec_dethrottle" \in Ops
          /\ \E j \in Cpus : ReadSpeeds[j] < cfg.cpuinfo_max_freqs[j]) =>
    \A i \in Cpus :
      /\ Cardinality(WritesTo(i)) = 1
      /\ \A k \in WritesTo(i) : trace[k].y = cfg.cpuinfo_max_freqs[i]

\* C15's case: exec_dethrottle_ has acted with the first CPU below its
\* maximum and the second above its own, and has written to the second too.
C15_Witness ==
  /\ Ticked /\ ~cfg.use_scaling_available /\ "log_dethrottle" \in Ops
  /\ ReadSpeeds[1] < cfg.cpuinfo_max_freqs[1]
  /\ ReadSpeeds[2] > cfg.cpuinfo_max_freqs[2]
  /\ \E k \in WritesTo(2) : trace[k].y = cfg.cpuinfo_max_freqs[2]

\* The highest and the lowest ceiling of CPU i: of its ladder with
\* use_scaling_available set, cpuinfo_max_freq and cpuinfo_min_freq without.
MaxSpeed(i) ==
  IF cfg.use_scaling_available THEN SetMax(LadderValues(i)) ELSE cfg.cpuinfo_max_freqs[i]
MinSpeed(i) ==
  IF cfg.use_scaling_available THEN SetMin(LadderValues(i)) ELSE cfg.cpuinfo_min_freqs[i]

\* C16: a tick that runs exec_dethrottle_ logs its line exactly when it has
\* read a ceiling strictly below that CPU's highest; when it has read none,
\* it writes no ceiling file.
C16_DethrottleNoOpAtMax ==
  (Ticked /\ "exec_dethrottle" \in Ops) =>
    /\ "log_dethrottle" \in Ops <=> \E i \in Cpus : ReadSpeeds[i] < MaxSpeed(i)
    /\ (\A i \in Cpus : ReadSpeeds[i] >= MaxSpeed(i)) => WriteIdx = {}

\* C16's case: exec_dethrottle_ has run on the ladder with every ceiling at
\* its highest, and has written and logged nothing.
C16_Witness ==
  /\ Ticked /\ "exec_dethrottle" \in Ops /\ cfg.use_scaling_available
  /\ \A i \in Cpus : ReadSpeeds[i] = MaxSpeed(i)
  /\ WriteIdx = {} /\ "log_dethrottle" \notin Ops

\* C17: a tick that runs exec_throttle_ logs its line exactly when it has
\* read a ceiling strictly above that CPU's lowest; when it has read none, it
\* writes no ceiling file.
C17_ThrottleNoOpAtMin ==
  (Ticked /\ "exec_throttle" \in Ops) =>
    /\ "log_throttle" \in Ops <=> \E i \in Cpus : ReadSpeeds[i] > MinSpeed(i)
    /\ (\A i \in Cpus : ReadSpeeds[i] <= MinSpeed(i)) => WriteIdx = {}

\* C17's case: exec_throttle_ has run without the ladder with every ceiling
\* at cpuinfo_min_freq, and has written and logged nothing.
C17_Witness ==
  /\ Ticked /\ "exec_throttle" \in Ops /\ ~cfg.use_scaling_available
  /\ \A i \in Cpus : ReadSpeeds[i] = MinSpeed(i)
  /\ WriteIdx = {} /\ "log_throttle" \notin Ops

\* A step that is a tick: it is not the environment's, which would change
\* the clock, or the life or the times of a process.
TickStep ==
  /\ pc = "run" /\ trace' # <<>>
  /\ proc_stat' = proc_stat /\ unreadable' = unreadable
  /\ \A p \in Pids : /\ proc'[p].alive = proc[p].alive
                     /\ proc'[p].utime = proc[p].utime
  /\ <<heap, pids_, self_stopped_pids_, proc, trace, refreshed, pc>>'
       # <<heap, pids_, self_stopped_pids_, proc, trace, refreshed, pc>>

\* C18: a tick that runs exec_SIGCONT_ with self_stopped_pids_ empty refreshes
\* no census, sends no signal and leaves every record, both vectors and the
\* process table as they were.
C18_ContinueNoOpWhenEmpty ==
  [][(TickStep /\ self_stopped_pids_ = <<>>
        /\ \E k \in 1..Len(trace') : trace'[k].op = "exec_SIGCONT") =>
       /\ \A k \in 1..Len(trace') : trace'[k].op \notin {"update_pids", "kill"}
       /\ refreshed' = NoCensus
       /\ heap' = heap /\ pids_' = pids_ /\ self_stopped_pids_' = <<>>
       /\ proc' = proc]_vars

\* C18's case: a tick has run exec_SIGCONT_ without a refresh while the
\* census held the record of a process that has exited and no record of one
\* that is running.
C18_Witness ==
  /\ Ticked /\ "exec_SIGCONT" \in Ops /\ "update_pids" \notin Ops
  /\ self_stopped_pids_ = <<>>
  /\ \E a \in Range(pids_) : ~proc[heap[a].pid_].alive
  /\ \E p \in Pids : proc[p].alive /\ \A a \in Range(pids_) : heap[a].pid_ # p

\* C19: after the refresh of a tick no record of the census or of
\* self_stopped_pids_ is of a process whose stat file was gone when the tick
\* began, at the refresh and when the tick ends, and the tick ends without
\* an error.
C19_GoneProcessDropped ==
  [][(TickStep /\ \E k \in 1..Len(trace') : trace'[k].op = "update_pids") =>
       /\ pc' = "run"
       /\ \A a \in Range(refreshed'.pids_) \cup Range(refreshed'.self_stopped_pids_) :
            proc[refreshed'.heap[a].pid_].alive
       /\ \A a \in Range(pids_') \cup Range(self_stopped_pids_') :
            proc[heap'[a].pid_].alive]_vars

\* C19's case: the refresh of the last tick has dropped a pointer of pids_
\* and a pointer of self_stopped_pids_ whose process was gone, and the loop
\* runs on.
C19_Witness ==
  /\ Ticked
  /\ \E k \in 1..Len(trace) :
       trace[k].op = "update_pids" /\ trace[k].x > 0 /\ trace[k].y > 0

\* What a failed tick may leave in the trace before main's catch: nothing,
\* or the sensor reading and the name of the function that read the
\* ceilings.
FailedTickOps ==
  {"max_line", "exec_throttle", "exec_dethrottle", "err_IOError", "return"}

\* C20: a tick that starts with the thermal files unreadable, or that runs
\* exec_throttle_ or exec_dethrottle_ with the scaling_max_freq files
\* unreadable, ends the daemon with IOError: the tick writes no ceiling file,
\* sends no signal, refreshes no census and runs no exec_SIGSTOP_ or
\* exec_SIGCONT_, the error is written by Logger::err, main returns 1, and no
\* step follows.
C20_ReadFailureIsFatal ==
  [][/\ pc = "run"
     /\ (/\ unreadable' = unreadable /\ trace' # trace
         /\ \/ "thermal" \in unreadable
            \/ /\ "scaling_max_freq" \in unreadable
               /\ \E k \in 1..Len(trace') :
                    trace'[k].op \in {"exec_throttle", "exec_dethrottle"}) =>
          /\ pc' = "IOError"
          /\ Len(trace') >= 2
          /\ trace'[Len(trace') - 1].op = "err_IOError"
          /\ trace'[Len(trace')].op = "return"
          /\ trace'[Len(trace')].x = 1
          /\ \A k \in 1..Len(trace') : trace'[k].op \in FailedTickOps
          /\ "thermal" \in unreadable => Len(trace') = 2
          /\ <<scaling_max_freq, proc, heap, pids_, self_stopped_pids_>>'
               = <<scaling_max_freq, proc, heap, pids_, self_stopped_pids_>>]_vars

\* C20's case: in the loop with throttle and SIGSTOP a tick above both upper
\* thresholds has failed to read the ceilings in exec_throttle_; the daemon
\* has ended with the error logged and 1 returned, and no exec_SIGSTOP_ ran.
C20_Witness ==
  /\ pc = "IOError" /\ cfg.use_SIGSTOP
  /\ Len(trace) = 4
  /\ "exec_SIGSTOP" \notin Ops
  /\ trace[1].op = "max_line" /\ trace[1].x > cfg.temp_SIGSTOP
  /\ trace[2].op = "exec_throttle"
  /\ trace[3].op = "err_IOError"
  /\ trace[4].op = "return" /\ trace[4].x = 1

C22_OwnPidWhitelisted ==
  /\ cfg.error = "none" => contains(cfg.whitelist_pid, own_pid)
  /\ Ticked => own_pid \notin Killed(19) \cup Killed(18)

\* C22's case: a config file whose whitelist_pid line lists PIDs 2 and 3 was
\* accepted, and its loop has run exec_SIGSTOP_ with the daemon in the census.
C22_Witness ==
  /\ Ticked /\ cfg.error = "none" /\ cfg.whitelist_pid = <<2, 3, own_pid>>
  /\ "exec_SIGSTOP" \in Ops
  /\ \E a \in Range(pids_) : heap[a].pid_ = own_pid /\ heap[a].is_whitelisted_

\* The config file of cfg has use_throttle and use_scaling_available set and
\* reaches the test for the ladder's files, which finds none.
LadderNotFound ==
  /\ cfg.config_lines_.use_throttle /\ cfg.config_lines_.use_scaling_available
  /\ Len(cfg.config_lines_.whitelist_pid) <= 1
  /\ cfg.temp_throttle >= cfg.temp_dethrottle
  /\ cfg.ls_scaling_available_frequencies = 0

\* C23: when use_scaling_available is set and the ladder's glob resolves to
\* no file, the load does not fail for it: a warning is written,
\* use_scaling_available is switched off, and the load goes on without the
\* ladder, reading cpuinfo_max_freq and cpuinfo_min_freq and counting them
\* against scaling_max_freq; the loop then throttles to cpuinfo_min_freq.
C23_LadderFallback ==
  LadderNotFound =>
    /\ Len(cfg.warnings) = 1
    /\ ~cfg.use_scaling_available
    /\ cfg.scaling_available_frequencies = <<>>
    /\ cfg.error =
         IF cfg.ls_cpuinfo_max_freq = 0 THEN "ArgumentError"
         ELSE IF cfg.ls_cpuinfo_max_freq # NCpu THEN "ConfigError"
         ELSE IF cfg.use_SIGSTOP /\ cfg.temp_SIGSTOP < cfg.temp_SIGCONT
           THEN "ConfigError"
         ELSE "none"
    /\ cfg.error = "none" =>
         /\ Len(cfg.cpuinfo_max_freqs) = NCpu
         /\ Len(cfg.cpuinfo_min_freqs) = NCpu
    /\ (Ticked /\ "exec_throttle" \in Ops) =>
         \A k \in WriteIdx : trace[k].y = cfg.cpuinfo_min_freqs[trace[k].x]

\* C23's case: a config file with use_scaling_available set was accepted
\* although the ladder's files were not found, and a tick of its loop has
\* throttled a CPU to cpuinfo_min_freq.
C23_Witness ==
  /\ LadderNotFound /\ Ticked /\ cfg.error = "none"
  /\ "exec_throttle" \in Ops /\ WriteIdx # {}

\* The positions of the last tick's census refreshes.
RefreshIdx == {i \in 1..Len(trace) : trace[i].op = "update_pids"}
\* The positions of the last tick's decisions: the exec_ functions it entered.
DecisionIdx ==
  {i \in 1..Len(trace) :
     trace[i].op \in {"exec_throttle", "exec_dethrottle", "exec_SIGSTOP", "exec_SIGCONT"}}
\* The last tick read the sensors first, slept last, and wrote and signalled
\* only after a decision.
TickFramed ==
  /\ trace[1].op = "max_line"
  /\ trace[Len(trace)].op = "sleep"
  /\ \A k \in KillIdx(19) \cup KillIdx(18) \cup WriteIdx \cup RefreshIdx :
       /\ 1 < k /\ k < Len(trace)
       /\ \E d \in DecisionIdx : d < k

\* C24, as stated: a tick reads the sensors, decides, refreshes the census,
\* writes frequencies and sends signals, and sleeps, in this order: no
\* frequency write and no signal of a tick precedes the tick's refresh.
C24_RefreshBeforeWritesAndSignals ==
  Ticked =>
    /\ TickFramed
    /\ \A r \in RefreshIdx, k \in KillIdx(19) \cup KillIdx(18) \cup WriteIdx : r < k

\* C24, amended: a tick reads the sensors first and sleeps last; every signal
\* it sends follows its one census refresh.  Without use_SIGSTOP no tick
\* refreshes and without use_throttle no tick writes; with both, the
\* frequency writes of exec_throttle_ and exec_dethrottle_ precede the
\* refresh of exec_SIGSTOP_ and exec_SIGCONT_.
C24_RefreshBeforeSignals ==
  Ticked =>
    /\ TickFramed
    /\ Cardinality(RefreshIdx) <= 1
    /\ \A k \in KillIdx(19) \cup KillIdx(18) : \E r \in RefreshIdx : r < k
    /\ ~cfg.use_SIGSTOP => RefreshIdx = {}
    /\ ~cfg.use_throttle => WriteIdx = {}
    /\ \A r \in RefreshIdx, k \in WriteIdx : k < r

\* C24's case: a tick with use_throttle and use_SIGSTOP has written a
\* frequency, then refreshed the census, then sent a signal.
C24_Witness ==
  /\ Ticked /\ cfg.use_throttle /\ cfg.use_SIGSTOP
  /\ \E k \in WriteIdx, r \in RefreshIdx, s \in KillIdx(19) : k < r /\ r < s

\* C25: in a tick that runs exec_SIGSTOP_, find_SIGSTOP_available_pids_ gives
\* exactly the records of the refreshed census that are of a living process,
\* ready, not whitelisted and not self-stopped, in the order of pids_, and
\* the tick sends SIGSTOP to no process outside them and SIGCONT to none.
C25_CandidatesExact ==
  (Ticked /\ "exec_SIGSTOP" \in Ops) =>
    LET available == find_SIGSTOP_available_pids_(refreshed)
    IN  /\ Range(available) = SignalCandidates
        /\ \A i, j \in 1..Len(available) : i # j => available[i] # available[j]
        /\ Killed(19) \subseteq {refreshed.heap[a].pid_ : a \in SignalCandidates}
        /\ Killed(18) = {}

\* C25's case: a tick has run exec_SIGSTOP_ and sent SIGSTOP while the census
\* held a record that is not whitelisted and not a candidate.
C25_Witness ==
  /\ Ticked /\ "exec_SIGSTOP" \in Ops /\ Killed(19) # {}
  /\ \E a \in Range(refreshed.pids_) \ SignalCandidates :
       ~refreshed.heap[a].is_whitelisted_ /\ ~refreshed.heap[a].is_ready_

\* C26, as stated: a record is a signal candidate of a refresh only when that
\* refresh computed its pid_cpu_pct_ from two consecutive samples taken while
\* it was not whitelisted: before the refresh the record was not whitelisted
\* and held a first sample.  A record that was whitelisted in between waits
\* for two fresh samples.
C26_ReadyAfterTwoSamples ==
  [][TickStep =>
       \A a \in SignalCandidates' :
         /\ a \in DOMAIN heap
         /\ ~heap[a].is_whitelisted_
         /\ heap[a].has_received_first_update_]_vars

\* C27, as stated: update() on a record whose stat file cannot be read any
\* more clears is_a_process_ and changes no other member: is_whitelisted_,
\* has_received_first_update_ and is_ready_ keep their values, and so do the
\* samples pid_time_prev_ and cpu_time_prev_ of a record that has taken one
\* and the pid_cpu_pct_ of a record that is ready.
C27_FailedUpdateKeepsMembers ==
  \A a \in Range(pids_) :
    ~proc[heap[a].pid_].alive =>
      LET updated == update(heap[a], sum_cur_cpu_time_)
      IN  /\ ~updated.is_a_process_
          /\ updated.is_whitelisted_ = heap[a].is_whitelisted_
          /\ updated.has_received_first_update_ = heap[a].has_received_first_update_
          /\ updated.is_ready_ = heap[a].is_ready_
          /\ heap[a].has_received_first_update_ =>
                /\ updated.pid_time_prev_ = heap[a].pid_time_prev_
                /\ updated.cpu_time_prev_ = heap[a].cpu_time_prev_
          /\ heap[a].is_ready_ => updated.pid_cpu_pct_ = heap[a].pid_cpu_pct_

\* The positions of the update() calls of the last refresh.
UpdateIdx == {k \in 1..Len(trace) : trace[k].op = "update"}

\* C28, as stated: the records of one refresh are all updated against the
\* same cpu_time, whatever happens to /proc/stat while the refresh runs, so
\* that the shares of one stepwise selection are over the same interval.
C28_OneSnapshotPerRefresh ==
  \A i, j \in UpdateIdx : trace[i].y = trace[j].y

\* C30, as stated: update() on a living, not whitelisted record that holds a
\* first sample, at a cpu_time equal to the cpu_time_prev_ of that sample,
\* sets pid_cpu_pct_ to 0, a value the stepwise selection can order.
C30_ZeroDeltaGivesZeroShare ==
  \A a \in Range(pids_) :
    (/\ proc[heap[a].pid_].alive
     /\ heap[a].has_received_first_update_
     /\ sum_cur_cpu_time_ = heap[a].cpu_time_prev_
     /\ ~update(heap[a], sum_cur_cpu_time_).is_whitelisted_) =>
      update(heap[a], sum_cur_cpu_time_).pid_cpu_pct_ = FloatOf(0)

\* A share within [0, 1]: an ordinary float, not above 1.
InUnitInterval(f) == f.den > 0 /\ 0 <= f.num /\ f.num <= f.den

\* C29, as stated: a record that update() leaves ready has a pid_cpu_pct_
\* within [0, 1] whenever the process time has not gone back since the
\* record's last sample and has not grown by more than cpu_time has.
C29_ShareInUnitInterval ==
  \A a \in Range(pids_) :
    LET updated == update(heap[a], sum_cur_cpu_time_)
    IN  (/\ proc[heap[a].pid_].alive
         /\ heap[a].has_received_first_update_
         /\ ~updated.is_whitelisted_
         /\ heap[a].pid_time_prev_ <= pid_time(updated)
         /\ heap[a].cpu_time_prev_ <= sum_cur_cpu_time_
         /\ pid_time(updated) - heap[a].pid_time_prev_
              <= sum_cur_cpu_time_ - heap[a].cpu_time_prev_) =>
          /\ updated.is_ready_
          /\ InUnitInterval(updated.pid_cpu_pct_)

\* C31, as stated: sum_cur_cpu_time_ is the exact sum of the columns user,
\* nice, system and idle of /proc/stat whenever that sum is a u_long value:
\* it is not cut down to a narrower integer.
C31_ExactSum ==
  proc_stat[1] + proc_stat[2] + proc_stat[3] + proc_stat[4] <= ULONG_MAX =>
    sum_cur_cpu_time_ = proc_stat[1] + proc_stat[2] + proc_stat[3] + proc_stat[4]

\* The ceilings the last tick read, one per "read" of its trace.
ReadIdx == {k \in 1..Len(trace) : trace[k].op = "read"}

C33_MatchesAsGlob ==
  \A a \in DOMAIN heap : \A i \in 1..Len(cfg.whitelist_comm) :
    heap[a].is_a_process_ =>
      (matches_pattern(cfg.whitelist_comm[i], heap[a].comm_)
         <=> glob_rule(cfg.whitelist_comm[i], heap[a].comm_))


\* What a pass of the loop that reads max_temp makes of the present state.
PassAt(max_temp) ==
  IF cfg.use_throttle THEN run_both(World(max_temp), max_temp)
  ELSE run_SIGSTOP(World(max_temp), max_temp)

\* The work exec_SIGCONT_ has left: the entries of self_stopped_pids_, and
\* those of them whose object is still marked.
Unfinished(h, s) ==
  Len(s) + Cardinality({i \in 1..Len(s) : h[s[i]].is_self_stopped_})

\* Every living process in state T has a marked object in self_stopped_pids_.
StoppedAreListed ==
  \A p \in Pids :
    (proc[p].alive /\ proc[p].state = "T") =>
      \E i \in 1..Len(self_stopped_pids_) :
        /\ heap[self_stopped_pids_[i]].pid_ = p
        /\ heap[self_stopped_pids_[i]].is_self_stopped_

\* A pass that reads max_temp throws nothing and leaves less unfinished than
\* it found.
Drains(max_temp) ==
  /\ PassAt(max_temp).thrown = "none"
  /\ Unfinished(PassAt(max_temp).heap, PassAt(max_temp).self_stopped_pids_)
       < Unfinished(heap, self_stopped_pids_)

\* C34, as stated: while max_temp stays strictly below temp_SIGCONT every
\* process the daemon stopped is eventually continued and self_stopped_pids_
\* becomes empty, with SIGSTOP only and with throttle and SIGSTOP.  Stated
\* with the variant Unfinished: what is stopped is listed, and as long as
\* something is listed every pass that reads below temp_SIGCONT leaves less
\* unfinished; the passes go on by the fairness of SpecSteady.
C34_CoolDrains ==
  /\ StoppedAreListed
  /\ (pc = "run" /\ self_stopped_pids_ # <<>>) =>
       \A max_temp \in Temps : max_temp < cfg.temp_SIGCONT => Drains(max_temp)

\* C34, the part the code keeps: the same for the passes that also read at
\* or below temp_throttle where throttle is in use, which are the passes
\* that reach exec_SIGCONT_.
C34_CoolAndUnthrottledDrains ==
  /\ StoppedAreListed
  /\ (pc = "run" /\ self_stopped_pids_ # <<>>) =>
       \A max_temp \in Temps :
         (/\ max_temp < cfg.temp_SIGCONT
          /\ cfg.use_throttle => max_temp <= cfg.temp_throttle) => Drains(max_temp)

\* A pass with throttle and SIGSTOP in use that read below both thresholds
\* and sent SIGCONT.
C34_Witness ==
  /\ Ticked /\ cfg.use_throttle
  /\ LastTemp < cfg.temp_SIGCONT /\ LastTemp <= cfg.temp_throttle
  /\ Killed(18) # {}


\* C35: self_stopped_pids_ never holds the same object twice, nor two
\* objects of one PID, and no tick sends SIGSTOP to a process that is
\* stopped already (one the daemon stopped and has not sent SIGCONT since),
\* nor twice to one PID.
C35_NoSecondStop ==
  [][/\ \A i, j \in 1..Len(self_stopped_pids_') :
          heap'[self_stopped_pids_'[i]].pid_ = heap'[self_stopped_pids_'[j]].pid_
            => i = j
     /\ TickStep =>
          \A k \in 1..Len(trace') :
            (trace'[k].op = "kill" /\ trace'[k].y = 19) =>
              /\ ~(proc[trace'[k].x].alive /\ proc[trace'[k].x].state = "T")
              /\ \A a \in Range(self_stopped_pids_) :
                   heap[a].pid_ = trace'[k].x => ~heap[a].is_self_stopped_
              /\ \A m \in 1..Len(trace') :
                   (trace'[m].op = "kill" /\ trace'[m].y = 19
                      /\ trace'[m].x = trace'[k].x) => m = k]_vars

\* A tick of the stepwise mode has stopped a process while another was
\* stopped already.
C35_Witness ==
  /\ Ticked /\ cfg.use_stepwise_SIGSTOP /\ KillIdx(19) # {}
  /\ Len(self_stopped_pids_) >= 2
  /\ \E i \in 1..Len(self_stopped_pids_) :
       heap[self_stopped_pids_[i]].pid_ \notin Killed(19)


\* C36: a tick sends SIGSTOP only to PIDs whose object was in pids_ before
\* the tick (an earlier refresh created it) and had taken a sample by then
\* (an earlier refresh updated it), the refresh of the tick being its second
\* update at least.  So a tick that starts from an empty census, and a tick
\* that starts from objects that have not been updated, sends no SIGSTOP.
C36_StopAfterTwoUpdates ==
  [][TickStep =>
       \A k \in 1..Len(trace') :
         (trace'[k].op = "kill" /\ trace'[k].y = 19) =>
           \E a \in Range(pids_) :
             /\ heap[a].pid_ = trace'[k].x
             /\ a \in Range(pids_') /\ heap'[a].pid_ = trace'[k].x
             /\ heap'[a].is_ready_
             /\ heap[a].has_received_first_update_ \/ heap[a].is_ready_]_vars

\* A tick has stopped a process whose object is ready while the census
\* holds the object of a younger process that is not.
C36_Witness ==
  /\ Ticked /\ LastTemp > cfg.temp_SIGSTOP
  /\ \E a, b \in Range(pids_) :
       /\ heap[a].pid_ \in Killed(19) /\ heap[a].is_ready_
       /\ heap[b].pid_ # own_pid /\ ~heap[b].is_whitelisted_ /\ ~heap[b].is_ready_


\* C37: no pass of run_, in any of its three loops, calls a getter of
\* Config whose mode is off: neither assert_throttle_mode_ nor
\* assert_SIGSTOP_mode_ ever throws, and the daemon does not end by them.
C37_NoGetterWithModeOff ==
  \A k \in 1..Len(trace) :
    trace[k].op \notin {"assert_throttle_mode", "assert_SIGSTOP_mode"}

\* A pass with one mode off has called getters of the other: a throttle-only
\* pass has read the ceilings, or a SIGSTOP-only pass has refreshed the
\* census and sent a signal.
C37_Witness ==
  /\ Ticked
  /\ \/ ~cfg.use_SIGSTOP /\ "exec_throttle" \in Ops /\ WriteIdx # {}
     \/ ~cfg.use_throttle /\ "exec_SIGSTOP" \in Ops /\ "update_pids" \in Ops


\* How many values of the ladder of CPU i lie below the ceiling f.
Rank(i, f) == Cardinality({v \in LadderValues(i) : v < f})

\* A pass of the throttle-only loop that reads above temp_throttle takes
\* the ceiling of every CPU one ladder value down, and leaves a ceiling
\* with no ladder value below it as it is.
StepsDown ==
  \A max_temp \in Temps :
    (pc = "run" /\ max_temp > cfg.temp_throttle) =>
      \A i \in Cpus :
        Rank(i, run_throttle(World(max_temp), max_temp).scaling_max_freq[i])
          = IF Rank(i, scaling_max_freq[i]) = 0 THEN 0
            ELSE Rank(i, scaling_max_freq[i]) - 1

\* The last pass read above temp_throttle.
AboveThrottle == Ticked /\ LastTemp > cfg.temp_throttle

\* Every ceiling is the lowest value of its ladder, and the last pass wrote
\* nothing and logged nothing.
AtLadderMin ==
  /\ \A i \in Cpus : scaling_max_freq[i] = SetMin(LadderValues(i))
  /\ Ticked /\ WriteIdx = {} /\ "log_throttle" \notin Ops

\* C38: in ladder mode, the daemon being the only writer of the ceilings, if
\* max_temp stays strictly above temp_throttle then every ceiling reaches the
\* lowest value of its ladder, each pass taking it one ladder value down (so
\* within as many passes as the ladder has values), and from then on
\* exec_throttle_ writes nothing and logs nothing.
C38_ThrottleReachesLadderMin ==
  /\ []StepsDown
  /\ <>[]AboveThrottle => <>[]AtLadderMin

\* Both ceilings are the lowest of their ladders after a pass that read
\* above temp_throttle and wrote nothing.
C38_Witness ==
  /\ AboveThrottle /\ "exec_throttle" \in Ops /\ WriteIdx = {}
  /\ scaling_max_freq[1] = 1 /\ scaling_max_freq[2] = 2


\* The members of the object at a of the last refresh are what the stat
\* line of its process holds after the parenthesised command name.
ReadAsPrinted(a) ==
  LET rec == refreshed.heap[a]
      attr == ProcAttr(rec.pid_)
  IN  /\ rec.comm_ = attr.comm
      /\ rec.state_ \in {"R", "T"}
      /\ rec.ppid_ = attr.ppid /\ rec.pgrp_ = attr.pgrp
      /\ rec.session_ = attr.session /\ rec.tty_nr_ = attr.tty_nr
      /\ rec.tpgid_ = attr.tpgid /\ rec.flags_ = attr.flags
      /\ rec.nice_ = attr.nice
      /\ rec.stime_ = 0 /\ rec.cutime_ = 0 /\ rec.cstime_ = 0

\* C39, as stated: no pass ends the daemon with a TypeError of read_stat_,
\* whatever the command names of the living processes, a name with a space
\* included, and after a refresh the members of the object of every living
\* process are what its stat line holds after the command name.
C39_SpacedCommRead ==
  /\ pc # "TypeError"
  /\ Ticked =>
       \A a \in Range(refreshed.pids_) :
         refreshed.heap[a].is_a_process_ => ReadAsPrinted(a)

\* The part of C39 the code keeps: while no living process has a space in
\* its command name, no pass ends with a TypeError and the members are read
\* as printed.
C39_PlainCommRead ==
  (\A p \in Pids : proc[p].alive => " " \notin Range(ProcAttr(p).comm)) =>
    /\ pc # "TypeError"
    /\ Ticked =>
         \A a \in Range(refreshed.pids_) :
           refreshed.heap[a].is_a_process_ => ReadAsPrinted(a)


\* C40: no two entries of pids_ are objects of the same PID, in the census a
\* refresh leaves and in the one the pass ends with.
C40_OneRecordPerPid ==
  /\ \A i, j \in 1..Len(pids_) :
       heap[pids_[i]].pid_ = heap[pids_[j]].pid_ => i = j
  /\ \A i, j \in 1..Len(refreshed.pids_) :
       refreshed.heap[refreshed.pids_[i]].pid_ =
         refreshed.heap[refreshed.pids_[j]].pid_ => i = j

\* C40 happens: pids_ holds three objects, and one of them had been sent
\* signal 19 and not signal 18 when the last refresh read state R from the
\* stat file of its PID: the process it stopped is gone and a new one has
\* its PID.
C40_Witness ==
  /\ Ticked /\ Len(pids_) >= 3
  /\ \E a \in Range(refreshed.pids_) \cap Range(pids_) :
       /\ refreshed.heap[a].is_self_stopped_ /\ refreshed.heap[a].is_a_process_
       /\ refreshed.heap[a].state_ = "R"
       /\ proc[heap[a].pid_].alive

=============================================================================
